---------------------------- MODULE Spec2Model ----------------------------
(***************************************************************************)
(* Model of the slither simulation core (frontend/src/slither).            *)
(*                                                                         *)
(* Numbers.  The code works on JavaScript doubles; the model works on      *)
(* fixed-point integers:                                                   *)
(*   - a coordinate is a whole number of 1/Scale world units;              *)
(*   - an angle is a whole number of PI/64 radians (PI == 64);             *)
(*   - cos and sin are read from a table of thousandths (TrigDen);         *)
(*   - a time (dt, nextPelletSpawn) is a whole number of 1/DtDen seconds;  *)
(*   - a Math.random() draw r in [0,1) is a numerator over RandDen.        *)
(* Products that the code rounds to a double are rounded to the nearest    *)
(* fixed-point value here.                                                 *)
(***************************************************************************)
EXTENDS Integers, Sequences, FiniteSets, Bags, TLC

VARIABLES
  state,     \* the GameState the host holds: createInitialState's or the last tick's result
  deadIds,   \* the deadIds array the last tick returned
  call,      \* the last tick call: its arguments and the input state object after it returned
  ticks      \* number of tick calls so far

vars == <<state, deadIds, call, ticks>>

---------------------------------------------------------------------------
(* Bounds of the model *)

MaxTicks == 2
MaxBots == 2
MaxPellets == 2

---------------------------------------------------------------------------
(* Fixed-point units *)

Scale == 100
PI == 64
TrigDen == 1000
DtDen == 12
RandDen == 640
GrowthDen == 1000
\* the largest coordinate of a vector whose hypotenuse is taken
HypotRange == 30000
FractionDen == 10
MulDen == 10

---------------------------------------------------------------------------
(* slitherLogic.js constants *)

SEGMENT_SPACING == 8
HEAD_RADIUS == 15
BODY_RADIUS == 15
PELLET_RADIUS == 30
MAGNET_RADIUS == 100
DEFAULT_SPEED == 600
\* 0.006, in 1/GrowthDen
SPEED_GROWTH_PER_SEGMENT == 6
\* 1.6, in 1/GrowthDen
SPEED_GROWTH_CAP == 1600
TURN_SPEED == 6
PELLET_VALUE == 2
\* 0.4, in 1/FractionDen
DEATH_PELLET_FRACTION == 4
INITIAL_LENGTH == 30
\* seconds
PELLET_SPAWN_INTERVAL == 2
ARENA_PADDING == 40

---------------------------------------------------------------------------
(* Arithmetic of the JavaScript operators the code uses *)

Min(a, b) == IF a <= b THEN a ELSE b
Max(a, b) == IF a >= b THEN a ELSE b

\* JavaScript's % : the remainder takes the sign of the dividend
JsMod(a, m) == IF a >= 0 THEN a % m ELSE -((-a) % m)

\* Math.round(n / d) for d > 0: nearest integer, halves towards +infinity
RoundDiv(n, d) == (2 * n + d) \div (2 * d)

\* Math.floor(n / d) for d > 0
FloorDiv(n, d) == n \div d

RECURSIVE NewtonSqrt(_, _)
NewtonSqrt(n, x) ==
  LET y == (x + n \div x) \div 2
  IN IF y >= x THEN x ELSE NewtonSqrt(n, y)

\* Math.sqrt / Math.hypot, to the nearest integer
Sqrt(n) ==
  IF n <= 0 THEN 0
  ELSE LET r == NewtonSqrt(n, Min(n, 46340))
       IN IF n - r * r > r THEN r + 1 ELSE r

\* cos(k * PI/64) for k in 0..32, in 1/TrigDen
CosTable ==
  << 1000, 999, 995, 989, 981, 970, 957, 942, 924, 904, 882, 858, 831, 803, 773, 741,
     707, 672, 634, 596, 556, 514, 471, 428, 383, 337, 290, 243, 195, 147, 98, 49, 0 >>

\* Math.cos(a), in 1/TrigDen
Cos(a) ==
  LET t == a % (2 * PI)
      u == IF t > PI THEN 2 * PI - t ELSE t
  IN IF u <= PI \div 2 THEN CosTable[u + 1] ELSE -CosTable[PI - u + 1]

\* Math.sin(a), in 1/TrigDen
Sin(a) == Cos(a - PI \div 2)

---------------------------------------------------------------------------
(* slitherLogic.js: geometry *)

RECURSIVE normalizeAngle(_)
normalizeAngle(a) ==
  IF a > PI THEN normalizeAngle(a - 2 * PI)
  ELSE IF a < -PI THEN normalizeAngle(a + 2 * PI)
  ELSE a

\* a variant with a single % per coordinate
wrapPointSingleMod(p, bounds) ==
  [x |-> JsMod(p.x, bounds.width), y |-> JsMod(p.y, bounds.height)]

wrapPoint(p, bounds) ==
  [x |-> JsMod(JsMod(p.x, bounds.width) + bounds.width, bounds.width),
   y |-> JsMod(JsMod(p.y, bounds.height) + bounds.height, bounds.height)]

\* a variant with Math.floor in the place of Math.round
ToroidalDeltaFloor(d, w) == d - w * FloorDiv(d, w)

\* dx - w * Math.round(dx / w)
ToroidalDelta(d, w) == d - w * RoundDiv(d, w)

toroidalDistSq(a, b, bounds) ==
  LET dx == ToroidalDelta(b.x - a.x, bounds.width)
      dy == ToroidalDelta(b.y - a.y, bounds.height)
  IN dx * dx + dy * dy

---------------------------------------------------------------------------
(* slitherLogic.js: moveSnake *)

\* a variant without the Math.min(1, ...) of line 164
TurnedAngleNoClamp(snake, dt, targetAngle) ==
  LET diff == normalizeAngle(targetAngle - snake.angle)
  IN normalizeAngle(snake.angle + RoundDiv(diff * snake.turnSpeed * dt, DtDen))

\* a variant without the second normalizeAngle (line 165)
TurnedAngleNoRenormalize(snake, dt, targetAngle) ==
  LET diff == normalizeAngle(targetAngle - snake.angle)
      frac == Min(DtDen, snake.turnSpeed * dt)
  IN snake.angle + RoundDiv(diff * frac, DtDen)

\* the heading after the turn step (lines 162-165); dt in 1/DtDen seconds
TurnedAngle(snake, dt, targetAngle) ==
  LET diff == normalizeAngle(targetAngle - snake.angle)
      frac == Min(DtDen, snake.turnSpeed * dt)
  IN normalizeAngle(snake.angle + RoundDiv(diff * frac, DtDen))

\* a variant without the cap
GrowthMulUncapped(len) ==
  GrowthDen + Max(0, len - INITIAL_LENGTH) * SPEED_GROWTH_PER_SEGMENT

\* growthMul of a snake of len segments, in 1/GrowthDen (lines 167-168)
GrowthMul(len) ==
  LET extraSegments == Max(0, len - INITIAL_LENGTH)
  IN Min(SPEED_GROWTH_CAP, GrowthDen + extraSegments * SPEED_GROWTH_PER_SEGMENT)

\* effectiveSpeed * dt, in 1/Scale units (lines 169-171)
StepLength(snake, dt) ==
  RoundDiv(snake.speed * GrowthMul(Len(snake.segments)) * dt, (GrowthDen * DtDen) \div Scale)

\* one step of the follow-the-leader loop (lines 179-198): the new place of curr behind prev
\* tdx / d and tdy / d are the same for (tdx, tdy) and any multiple of it: the division is done
\* on the multiple m * (tdx, tdy) of magnitude near HypotRange, so that rounding the hypotenuse
\* to a whole number does not tilt or stretch a short (tdx, tdy)
\* Math.hypot(vx, vy)
Hypot(vx, vy) == Sqrt(vx * vx + vy * vy)

\* the multiple of (tdx, tdy) the division is done on
HypotScale(tdx, tdy) == Max(1, HypotRange \div Max(Max(tdx, -tdx), Max(tdy, -tdy)))

\* (vx / d) * spacing and (vy / d) * spacing
Rescaled(vx, vy, d, spacing) ==
  [x |-> RoundDiv(vx * spacing, d), y |-> RoundDiv(vy * spacing, d)]

\* (tdx / d) * SEGMENT_SPACING and (tdy / d) * SEGMENT_SPACING of lines 194-195
FollowOffset(tdx, tdy, m, spacing) ==
  Rescaled(m * tdx, m * tdy, Hypot(m * tdx, m * tdy), spacing)

Shifted(p, off) == [x |-> p.x + off.x, y |-> p.y + off.y]

FollowSegment(prev, curr, angle, bounds) ==
  LET tdx == ToroidalDelta(curr.x - prev.x, bounds.width)
      tdy == ToroidalDelta(curr.y - prev.y, bounds.height)
      spacing == SEGMENT_SPACING * Scale
      next == IF tdx = 0 /\ tdy = 0
              THEN [x |-> prev.x - RoundDiv(Cos(angle) * spacing, TrigDen),
                    y |-> prev.y - RoundDiv(Sin(angle) * spacing, TrigDen)]
              ELSE Shifted(prev, FollowOffset(tdx, tdy, HypotScale(tdx, tdy), spacing))
  IN wrapPoint(next, bounds)

\* a variant in which each segment follows the place its leader had before the move
RECURSIVE FollowChainOldPrev(_, _, _, _, _)
FollowChainOldPrev(built, old, i, angle, bounds) ==
  IF i > Len(old) THEN built
  ELSE FollowChainOldPrev(Append(built, FollowSegment(old[i - 1], old[i], angle, bounds)),
                          old, i + 1, angle, bounds)

\* the segments array the loop of lines 176-201 builds
RECURSIVE FollowChain(_, _, _, _, _)
FollowChain(built, old, i, angle, bounds) ==
  IF i > Len(old) THEN built
  ELSE FollowChain(Append(built, FollowSegment(built[Len(built)], old[i], angle, bounds)),
                   old, i + 1, angle, bounds)

moveSnake(snake, dt, targetAngle, bounds) ==
  LET head == snake.segments[1]
      angle == TurnedAngle(snake, dt, targetAngle)
      len == StepLength(snake, dt)
      dx == RoundDiv(Cos(angle) * len, TrigDen)
      dy == RoundDiv(Sin(angle) * len, TrigDen)
      newHead == wrapPoint([x |-> head.x + dx, y |-> head.y + dy], bounds)
  IN [snake EXCEPT !.segments = FollowChain(<<newHead>>, snake.segments, 2, angle, bounds),
                   !.angle = angle]

---------------------------------------------------------------------------
(* slitherLogic.js: createInitialState *)

\* minX + Math.random() * (maxX - minX), for a draw r in 1/RandDen
PaddedCoord(r, size) ==
  ARENA_PADDING * Scale + RoundDiv(r * (size - 2 * ARENA_PADDING * Scale), RandDen)

\* Math.random() * 2 * Math.PI - Math.PI
RandomAngle(r) == RoundDiv(r * 2 * PI, RandDen) - PI

\* the usedPositions key of a head (line 78)
CellKey(x, y) == <<FloorDiv(x, 50 * Scale), FloorDiv(y, 50 * Scale)>>

Colors ==
  << "#33cc33", "#e74c3c", "#3498db", "#f1c40f", "#9b59b6", "#1abc9c", "#e67e22", "#2ecc71" >>

SnakeId(i) == IF i = 0 THEN "player" ELSE "snake-" \o ToString(i)

\* the snake pushed for loop index i (0-based) from the accepted draws d = [x, y, a]
InitialSnake(i, d, bounds) ==
  LET x == PaddedCoord(d.x, bounds.width)
      y == PaddedCoord(d.y, bounds.height)
      angle == RandomAngle(d.a)
      spacing == SEGMENT_SPACING * Scale
  IN [id |-> SnakeId(i),
      segments |-> [s \in 1..INITIAL_LENGTH |->
                      [x |-> x - RoundDiv(Cos(angle) * (s - 1) * spacing, TrigDen),
                       y |-> y - RoundDiv(Sin(angle) * (s - 1) * spacing, TrigDen)]],
      angle |-> angle,
      speed |-> DEFAULT_SPEED,
      turnSpeed |-> TURN_SPEED,
      color |-> IF i = 0 THEN "#00ff88" ELSE Colors[(i % Len(Colors)) + 1],
      isPlayer |-> (i = 0)]

InitialPellet(d, bounds) ==
  [x |-> PaddedCoord(d.x, bounds.width),
   y |-> PaddedCoord(d.y, bounds.height),
   value |-> PELLET_VALUE]

\* the do-while of lines 75-79 accepts a draw only when its cell key is unused
DrawsAccepted(headDraws, bounds) ==
  \A i, j \in 1..Len(headDraws) :
    i < j => CellKey(PaddedCoord(headDraws[i].x, bounds.width),
                     PaddedCoord(headDraws[i].y, bounds.height))
             # CellKey(PaddedCoord(headDraws[j].x, bounds.width),
                       PaddedCoord(headDraws[j].y, bounds.height))

\* createInitialState({bounds, numBots, numPellets}) with the accepted Math.random() draws
createInitialState(bounds, headDraws, pelletDraws) ==
  [snakes |-> [i \in 1..Len(headDraws) |-> InitialSnake(i - 1, headDraws[i], bounds)],
   pellets |-> [p \in 1..Len(pelletDraws) |-> InitialPellet(pelletDraws[p], bounds)],
   bounds |-> bounds,
   nextSnakeId |-> Len(headDraws),
   nextPelletSpawn |-> PELLET_SPAWN_INTERVAL * DtDen]

---------------------------------------------------------------------------
(* slitherLogic.js: tick *)

\* a variant that leaves the multiplied speed in the snake it returns
MovePhaseKeepingBoost(st, dt, targetAngles, options) ==
  [i \in 1..Len(st.snakes) |->
     LET s == st.snakes[i]
         target == IF s.id \in DOMAIN targetAngles THEN targetAngles[s.id] ELSE s.angle
         speedMul == IF s.isPlayer THEN options.playerSpeedMultiplier ELSE MulDen
         snakeToMove == IF speedMul # MulDen
                        THEN [s EXCEPT !.speed = RoundDiv(s.speed * speedMul, MulDen)]
                        ELSE s
     IN moveSnake(snakeToMove, dt, target, st.bounds)]

\* a variant that steers a snake without an entry in targetAngles towards the angle 0
MovePhaseDefaultZero(st, dt, targetAngles, options) ==
  [i \in 1..Len(st.snakes) |->
     LET s == st.snakes[i]
         target == IF s.id \in DOMAIN targetAngles THEN targetAngles[s.id] ELSE 0
         speedMul == IF s.isPlayer THEN options.playerSpeedMultiplier ELSE MulDen
         snakeToMove == IF speedMul # MulDen
                        THEN [s EXCEPT !.speed = RoundDiv(s.speed * speedMul, MulDen)]
                        ELSE s
         result == moveSnake(snakeToMove, dt, target, st.bounds)
     IN IF speedMul # MulDen THEN [result EXCEPT !.speed = s.speed] ELSE result]

\* lines 248-255: every snake moved with this tick's target angle
MovePhase(st, dt, targetAngles, options) ==
  [i \in 1..Len(st.snakes) |->
     LET s == st.snakes[i]
         target == IF s.id \in DOMAIN targetAngles THEN targetAngles[s.id] ELSE s.angle
         speedMul == IF s.isPlayer THEN options.playerSpeedMultiplier ELSE MulDen
         snakeToMove == IF speedMul # MulDen
                        THEN [s EXCEPT !.speed = RoundDiv(s.speed * speedMul, MulDen)]
                        ELSE s
         result == moveSnake(snakeToMove, dt, target, st.bounds)
     IN IF speedMul # MulDen THEN [result EXCEPT !.speed = s.speed] ELSE result]

PelletCollectRadiusSq ==
  ((HEAD_RADIUS + PELLET_RADIUS + MAGNET_RADIUS) * Scale) * ((HEAD_RADIUS + PELLET_RADIUS + MAGNET_RADIUS) * Scale)

RemoveAt(seq, i) == SubSeq(seq, 1, i - 1) \o SubSeq(seq, i + 1, Len(seq))

\* a variant that scans from the first index up and steps on after a removal
RECURSIVE CollectScanUp(_, _, _, _, _)
CollectScanUp(head, pellets, i, lengthGain, bounds) ==
  IF i > Len(pellets) THEN [pellets |-> pellets, lengthGain |-> lengthGain]
  ELSE IF toroidalDistSq(head, pellets[i], bounds) < PelletCollectRadiusSq
       THEN CollectScanUp(head, RemoveAt(pellets, i), i + 1, lengthGain + pellets[i].value, bounds)
       ELSE CollectScanUp(head, pellets, i + 1, lengthGain, bounds)

CollectScanAscending(head, pellets, i, lengthGain, bounds) ==
  CollectScanUp(head, pellets, 1, lengthGain, bounds)

\* lines 261-266: the scan of one head over the pellets, from the last index down
RECURSIVE CollectScan(_, _, _, _, _)
CollectScan(head, pellets, i, lengthGain, bounds) ==
  IF i < 1 THEN [pellets |-> pellets, lengthGain |-> lengthGain]
  ELSE IF toroidalDistSq(head, pellets[i], bounds) < PelletCollectRadiusSq
       THEN CollectScan(head, RemoveAt(pellets, i), i - 1, lengthGain + pellets[i].value, bounds)
       ELSE CollectScan(head, pellets, i - 1, lengthGain, bounds)

\* a variant whose growth loop runs once too often
GrowSnakeOffByOne(snake, lengthGain) ==
  IF lengthGain <= 0 THEN snake
  ELSE LET tail == snake.segments[Len(snake.segments)]
       IN [snake EXCEPT !.segments = snake.segments \o [g \in 1..(lengthGain + 1) |-> tail]]

\* lines 267-273: lengthGain copies of the tail appended
GrowSnake(snake, lengthGain) ==
  IF lengthGain <= 0 THEN snake
  ELSE LET tail == snake.segments[Len(snake.segments)]
       IN [snake EXCEPT !.segments = snake.segments \o [g \in 1..lengthGain |-> tail]]

\* a variant in which every snake scans the pellets the tick started with
RECURSIVE CollectPhaseShared(_, _, _, _, _, _)
CollectPhaseShared(snakes, k, done, pellets, replaced, bounds) ==
  IF k > Len(snakes)
  THEN [snakes |-> done,
        pellets |-> SelectSeq(pellets, LAMBDA p :
                      \A j \in 1..Len(snakes) :
                        ~(toroidalDistSq(snakes[j].segments[1], p, bounds) < PelletCollectRadiusSq)),
        replaced |-> replaced]
  ELSE LET scan == CollectScan(snakes[k].segments[1], pellets, Len(pellets), 0, bounds)
       IN CollectPhaseShared(snakes, k + 1, Append(done, GrowSnake(snakes[k], scan.lengthGain)),
                             pellets, replaced \/ Len(scan.pellets) # Len(pellets), bounds)

\* lines 258-274: the snakes in array order, each scanning what the earlier ones left.
\* replaced: whether the local pellets was reassigned (it then no longer is state.pellets)
RECURSIVE CollectPhase(_, _, _, _, _, _)
CollectPhase(snakes, k, done, pellets, replaced, bounds) ==
  IF k > Len(snakes) THEN [snakes |-> done, pellets |-> pellets, replaced |-> replaced]
  ELSE LET scan == CollectScan(snakes[k].segments[1], pellets, Len(pellets), 0, bounds)
       IN CollectPhase(snakes, k + 1, Append(done, GrowSnake(snakes[k], scan.lengthGain)),
                       scan.pellets, replaced \/ Len(scan.pellets) # Len(pellets), bounds)

CollisionRadiusSq ==
  ((HEAD_RADIUS + BODY_RADIUS) * Scale) * ((HEAD_RADIUS + BODY_RADIUS) * Scale)

\* a variant without the id test of line 222
headHitsBodyOwnToo(snakeId, head, allSnakes, bounds) ==
  \E k \in 1..Len(allSnakes) :
    \E i \in 1..Len(allSnakes[k].segments) :
      toroidalDistSq(head, allSnakes[k].segments[i], bounds) < CollisionRadiusSq

\* a variant that tests each pair once: only the snakes later in the array count
headHitsBodyLater(snakeId, head, allSnakes, bounds) ==
  \E k \in 1..Len(allSnakes) :
    /\ \E own \in 1..(k - 1) : allSnakes[own].id = snakeId
    /\ \E i \in 1..Len(allSnakes[k].segments) :
         toroidalDistSq(head, allSnakes[k].segments[i], bounds) < CollisionRadiusSq

\* a variant that counts a segment at exactly the collision distance as a hit
headHitsBodyInclusive(snakeId, head, allSnakes, bounds) ==
  \E k \in 1..Len(allSnakes) :
    /\ allSnakes[k].id # snakeId
    /\ \E i \in 1..Len(allSnakes[k].segments) :
         toroidalDistSq(head, allSnakes[k].segments[i], bounds) <= CollisionRadiusSq

headHitsBody(snakeId, head, allSnakes, bounds) ==
  \E k \in 1..Len(allSnakes) :
    /\ allSnakes[k].id # snakeId
    /\ \E i \in 1..Len(allSnakes[k].segments) :
         toroidalDistSq(head, allSnakes[k].segments[i], bounds) < CollisionRadiusSq

\* lines 276-282: the ids added to the deadIds set, in insertion order
RECURSIVE DeadIdsFrom(_, _, _, _)
DeadIdsFrom(snakes, k, dead, bounds) ==
  IF k > Len(snakes) THEN dead
  ELSE DeadIdsFrom(snakes, k + 1,
                   IF /\ headHitsBody(snakes[k].id, snakes[k].segments[1], snakes, bounds)
                      /\ \A j \in 1..Len(dead) : dead[j] # snakes[k].id
                   THEN Append(dead, snakes[k].id) ELSE dead,
                   bounds)

\* a variant that resolves deaths one by one: a snake already judged dead no longer counts
\* as an obstacle for the snakes tested after it
RECURSIVE DeadIdsSequential(_, _, _, _)
DeadIdsSequential(snakes, k, dead, bounds) ==
  IF k > Len(snakes) THEN dead
  ELSE LET standing == SelectSeq(snakes, LAMBDA s : \A j \in 1..Len(dead) : dead[j] # s.id)
       IN DeadIdsSequential(snakes, k + 1,
                            IF headHitsBody(snakes[k].id, snakes[k].segments[1], standing, bounds)
                            THEN Append(dead, snakes[k].id) ELSE dead,
                            bounds)

CollisionPhaseSequential(snakes, bounds) == DeadIdsSequential(snakes, 1, <<>>, bounds)

CollisionPhase(snakes, bounds) == DeadIdsFrom(snakes, 1, <<>>, bounds)

\* a variant that removes only the first dead id
RemovePhaseFirstOnly(snakes, dead) ==
  SelectSeq(snakes, LAMBDA s : dead = <<>> \/ dead[1] # s.id)

\* line 284
RemovePhase(snakes, dead) ==
  SelectSeq(snakes, LAMBDA s : \A j \in 1..Len(dead) : dead[j] # s.id)

\* line 287: state.snakes.find((s) => s.id === id), as a sequence of zero or one snake
FindDead(st, id) ==
  LET hits == SelectSeq(st.snakes, LAMBDA s : s.id = id)
  IN IF hits = <<>> THEN <<>> ELSE <<hits[1]>>

\* a variant whose pellets are worth one segment each
DeathPelletsUnitValue(dead) ==
  LET len == Len(dead.segments)
      count == Max(1, FloorDiv(len * DEATH_PELLET_FRACTION, FractionDen))
      step == Max(1, FloorDiv(len, count))
  IN [i \in 1..count |->
        LET seg == dead.segments[Min((i - 1) * step, len - 1) + 1]
        IN [x |-> seg.x, y |-> seg.y, value |-> 1]]

\* lines 289-299: the pellets pushed for one dead body
DeathPellets(dead) ==
  LET len == Len(dead.segments)
      count == Max(1, FloorDiv(len * DEATH_PELLET_FRACTION, FractionDen))
      step == Max(1, FloorDiv(len, count))
  IN [i \in 1..count |->
        LET seg == dead.segments[Min((i - 1) * step, len - 1) + 1]
        IN [x |-> seg.x, y |-> seg.y, value |-> PELLET_VALUE]]

\* lines 286-300: the pushes for every dead id, in deadIds order
RECURSIVE DeathPhase(_, _, _, _)
DeathPhase(st, dead, j, pellets) ==
  IF j > Len(dead) THEN pellets
  ELSE LET found == FindDead(st, dead[j])
       IN DeathPhase(st, dead, j + 1,
                     IF found = <<>> THEN pellets ELSE pellets \o DeathPellets(found[1]))

\* whether the countdown of lines 302-304 reaches zero in this call
SpawnFires(st, dt) == st.nextPelletSpawn - dt <= 0

\* a variant that catches up: one pellet for every interval the countdown has run through
SpawnPhaseCatchUp(st, dt, pellets, rnd) ==
  LET interval == PELLET_SPAWN_INTERVAL * DtDen
      left == st.nextPelletSpawn - dt
      n == IF left > 0 THEN 0 ELSE 1 + (-left) \div interval
  IN [nextPelletSpawn |-> left + n * interval,
      pellets |-> pellets \o [i \in 1..n |-> InitialPellet(rnd, st.bounds)]]

\* lines 302-311; rnd = [x, y], the two Math.random() draws
SpawnPhase(st, dt, pellets, rnd) ==
  IF SpawnFires(st, dt)
  THEN [nextPelletSpawn |-> PELLET_SPAWN_INTERVAL * DtDen,
        pellets |-> Append(pellets, InitialPellet(rnd, st.bounds))]
  ELSE [nextPelletSpawn |-> st.nextPelletSpawn - dt, pellets |-> pellets]

\* a variant of tick that judges collisions on the positions the snakes had before moving
tickCollideBeforeMove(st, dt, targetAngles, options, rnd) ==
  LET moved == MovePhase(st, dt, targetAngles, options)
      collected == CollectPhase(moved, 1, <<>>, st.pellets, FALSE, st.bounds)
      dead == CollisionPhase(st.snakes, st.bounds)
      alive == RemovePhase(collected.snakes, dead)
      scattered == DeathPhase(st, dead, 1, collected.pellets)
      spawned == SpawnPhase(st, dt, scattered, rnd)
  IN [state |-> [st EXCEPT !.snakes = alive,
                           !.pellets = spawned.pellets,
                           !.nextPelletSpawn = spawned.nextPelletSpawn],
      deadIds |-> dead,
      input |-> IF collected.replaced THEN st ELSE [st EXCEPT !.pellets = spawned.pellets]]

\* tick(state, dt, targetAngles, options).  The result holds the returned state and deadIds,
\* and input: the value of the state object that was passed in, once the call has returned
\* (the pushes of lines 294 and 306 go to state.pellets itself while the local pellets
\* still is that array).
tick(st, dt, targetAngles, options, rnd) ==
  LET moved == MovePhase(st, dt, targetAngles, options)
      collected == CollectPhase(moved, 1, <<>>, st.pellets, FALSE, st.bounds)
      dead == CollisionPhase(collected.snakes, st.bounds)
      alive == RemovePhase(collected.snakes, dead)
      scattered == DeathPhase(st, dead, 1, collected.pellets)
      spawned == SpawnPhase(st, dt, scattered, rnd)
  IN [state |-> [st EXCEPT !.snakes = alive,
                           !.pellets = spawned.pellets,
                           !.nextPelletSpawn = spawned.nextPelletSpawn],
      deadIds |-> dead,
      input |-> IF collected.replaced THEN st ELSE [st EXCEPT !.pellets = spawned.pellets]]

---------------------------------------------------------------------------
(* botAI.js.  A null result is the empty sequence, an angle a the sequence <<a>>. *)

DANGER_RADIUS == 80
PELLET_SEEK_RADIUS == 600
\* 0.12, in 1/SmoothDen
TURN_SMOOTH == 12
SmoothDen == 100
\* strength and the components of repulsion are whole numbers of 1/StrengthDen
StrengthDen == 1000
\* mag is a whole number of 1/MagDen
MagDen == 100
\* the 100 of `mag < 100`
RepulsionThreshold == 100

RECURSIVE BotNormalizeAngle(_)
BotNormalizeAngle(a) ==
  IF a > PI THEN BotNormalizeAngle(a - 2 * PI)
  ELSE IF a < -PI THEN BotNormalizeAngle(a + 2 * PI)
  ELSE a

\* a squared length too long for one machine word, kept exact in two:
\* <<u, f>> stands for u + f / Scale^2 square units, 0 <= f < Scale^2
WholeSq(r) == <<r * r, 0>>
SqLess(p, q) == p[1] < q[1] \/ (p[1] = q[1] /\ p[2] < q[2])

distSq(a, b) ==
  LET dx == b.x - a.x
      dy == b.y - a.y
      qx == dx \div Scale
      rx == dx % Scale
      qy == dy \div Scale
      ry == dy % Scale
      low == 2 * Scale * (qx * rx + qy * ry) + rx * rx + ry * ry
  IN <<qx * qx + qy * qy + low \div (Scale * Scale), low % (Scale * Scale)>>

\* Math.atan2(y, x), to the nearest PI/64 in (-PI, PI]: of the directions k that point the
\* way of (x, y), the one whose cross product with (x, y) is smallest
Atan2(y, x) ==
  IF x = 0 /\ y = 0 THEN 0
  ELSE LET Dot(k) == Cos(k) * x + Sin(k) * y
           Cross(k) == LET c == Cos(k) * y - Sin(k) * x IN IF c < 0 THEN -c ELSE c
           ahead == {k \in (1 - PI)..PI : Dot(k) > 0}
       IN CHOOSE k \in ahead : \A j \in ahead : Cross(k) <= Cross(j)

\* the loop of lines 82-88: best is <<>> or the one pellet found so far
RECURSIVE SeekScan(_, _, _, _, _)
SeekScan(head, pellets, i, best, bestDistSq) ==
  IF i > Len(pellets) THEN best
  ELSE LET d == distSq(head, pellets[i])
       IN IF SqLess(d, bestDistSq)
          THEN SeekScan(head, pellets, i + 1, <<pellets[i]>>, d)
          ELSE SeekScan(head, pellets, i + 1, best, bestDistSq)

seekNearestPellet(head, pellets) ==
  LET best == SeekScan(head, pellets, 1, <<>>, WholeSq(PELLET_SEEK_RADIUS))
  IN IF best = <<>> THEN <<>>
     ELSE <<Atan2(best[1].y - head.y, best[1].x - head.x)>>

\* the test of line 109 on the squared distance d
InDanger(d, r) == SqLess(d, WholeSq(r)) /\ SqLess(<<1, 0>>, d)

\* lines 110-113: what a pass subtracts for a segment at the distance dist, within reach r
RepulsionAway(head, seg, dist, r) ==
  LET strength == StrengthDen - RoundDiv(dist * StrengthDen, r * Scale)
  IN [x |-> RoundDiv((head.x - seg.x) * strength, dist),
      y |-> RoundDiv((head.y - seg.y) * strength, dist)]

\* what one pass of the inner loop (lines 108-115) subtracts from repulsion: the loop reads
\* snake.segments[0] in every pass
RepulsionTerm(head, snake) ==
  LET r == HEAD_RADIUS + BODY_RADIUS + DANGER_RADIUS
      seg == snake.segments[1]
      d == distSq(head, seg)
  IN IF InDanger(d, r)
     THEN RepulsionAway(head, seg, Sqrt(d[1] * Scale * Scale + d[2]), r)
     ELSE [x |-> 0, y |-> 0]

\* repulsion after the passes of one snake
Lessened(repulsion, passes, term) ==
  [x |-> repulsion.x - passes * term.x, y |-> repulsion.y - passes * term.y]

\* lines 106-116: the passes of the inner loop for allSnakes[k], k = 1, 2, ...
RECURSIVE RepulsionSum(_, _, _, _, _)
RepulsionSum(head, self, allSnakes, k, repulsion) ==
  IF k > Len(allSnakes) THEN repulsion
  ELSE LET snake == allSnakes[k]
           start == IF snake.id = self.id THEN 1 ELSE 0
       IN RepulsionSum(head, self, allSnakes, k + 1,
                       Lessened(repulsion, Max(0, Len(snake.segments) - start),
                                RepulsionTerm(head, snake)))

\* lines 118-120: no angle while the repulsion is weak
SteerAway(repulsion) ==
  LET unit == StrengthDen \div MagDen
  IN IF Hypot(RoundDiv(repulsion.x, unit), RoundDiv(repulsion.y, unit))
          < RepulsionThreshold * MagDen
     THEN <<>>
     ELSE <<Atan2(repulsion.y, repulsion.x)>>

avoidObstacles(head, self, allSnakes) ==
  SteerAway(RepulsionSum(head, self, allSnakes, 1, [x |-> 0, y |-> 0]))

\* a variant in which a pellet in seek range comes before the avoidance
BotTargetAngleSeekFirst(snake, st) ==
  LET head == snake.segments[1]
      seekAngle == seekNearestPellet(head, st.pellets)
      avoidAngle == avoidObstacles(head, snake, st.snakes)
      targetAngle == IF seekAngle # <<>> THEN seekAngle[1]
                     ELSE IF avoidAngle # <<>> THEN avoidAngle[1]
                     ELSE snake.angle
      diff == BotNormalizeAngle(targetAngle - snake.angle)
  IN BotNormalizeAngle(snake.angle + RoundDiv(diff * TURN_SMOOTH, SmoothDen))

\* a variant whose targetAngle starts at 0 and not at the snake's angle
BotTargetAngleFromZero(snake, st) ==
  LET head == snake.segments[1]
      seekAngle == seekNearestPellet(head, st.pellets)
      avoidAngle == avoidObstacles(head, snake, st.snakes)
      targetAngle == IF avoidAngle # <<>> THEN avoidAngle[1]
                     ELSE IF seekAngle # <<>> THEN seekAngle[1]
                     ELSE 0
      diff == BotNormalizeAngle(targetAngle - snake.angle)
  IN BotNormalizeAngle(snake.angle + RoundDiv(diff * TURN_SMOOTH, SmoothDen))

\* lines 53-67: the entry of one bot
BotTargetAngle(snake, st) ==
  LET head == snake.segments[1]
      seekAngle == seekNearestPellet(head, st.pellets)
      avoidAngle == avoidObstacles(head, snake, st.snakes)
      targetAngle == IF avoidAngle # <<>> THEN avoidAngle[1]
                     ELSE IF seekAngle # <<>> THEN seekAngle[1]
                     ELSE snake.angle
      diff == BotNormalizeAngle(targetAngle - snake.angle)
  IN BotNormalizeAngle(snake.angle + RoundDiv(diff * TURN_SMOOTH, SmoothDen))

\* a variant without the isPlayer test of line 52
computeTargetAnglesAll(st) ==
  [id \in {st.snakes[k].id : k \in 1..Len(st.snakes)} |->
     LET last == CHOOSE k \in 1..Len(st.snakes) :
                   /\ st.snakes[k].id = id
                   /\ \A j \in 1..Len(st.snakes) : st.snakes[j].id = id => j <= k
     IN BotTargetAngle(st.snakes[last], st)]

\* the result object: an entry for every snake that is not the player
computeTargetAngles(st) ==
  LET bots == {k \in 1..Len(st.snakes) : ~st.snakes[k].isPlayer}
  IN [id \in {st.snakes[k].id : k \in bots} |->
        LET last == CHOOSE k \in bots :
                      /\ st.snakes[k].id = id
                      /\ \A j \in bots : st.snakes[j].id = id => j <= k
        IN BotTargetAngle(st.snakes[last], st)]

---------------------------------------------------------------------------
(* The host: one initial state, then tick after tick *)

ArenaBounds == [width |-> 480 * Scale, height |-> 400 * Scale]

\* Math.random() draws of createInitialState, as numerators over RandDen.
\* Heads: (100,200) heading 0; (300,200) heading -PI; (220,150) heading PI/2; (100,300) heading 0
DrawA == [x |-> 96, y |-> 320, a |-> 320]
DrawB == [x |-> 416, y |-> 320, a |-> 0]
DrawC == [x |-> 288, y |-> 220, a |-> 480]
DrawD == [x |-> 96, y |-> 520, a |-> 320]
\* (70,180) heading PI/2: a head that starts within collision range of DrawA's body and is
\* exactly HEAD_RADIUS+BODY_RADIUS away from it after a move of 50
DrawE == [x |-> 48, y |-> 280, a |-> 480]
\* Pellets: (250,200); (40,200); (430,340); (250,210); (295,200), which is exactly
\* HEAD_RADIUS+PELLET_RADIUS+MAGNET_RADIUS away from DrawA's head after a move of 50
DrawT == [x |-> 408, y |-> 320]
DrawP == [x |-> 336, y |-> 320]
DrawQ == [x |-> 0, y |-> 320]
DrawR == [x |-> 624, y |-> 600]
DrawS == [x |-> 336, y |-> 340]

Seeds ==
  { [heads |-> <<DrawA, DrawB, DrawC, DrawD>>, pellets |-> <<DrawP, DrawS, DrawQ, DrawR>>],
    [heads |-> <<DrawA, DrawC, DrawB, DrawD>>, pellets |-> <<DrawQ, DrawR, DrawP, DrawS>>],
    [heads |-> <<DrawA, DrawE, DrawC, DrawB>>, pellets |-> <<DrawT, DrawP, DrawQ, DrawS>>] }

NoAngles == [id \in {} |-> 0]

\* the arguments of a tick call: dt in 1/DtDen s, targetAngles, options.playerSpeedMultiplier in 1/MulDen
TickInputs ==
  { [dt |-> 1, targetAngles |-> NoAngles, options |-> [playerSpeedMultiplier |-> MulDen]],
    [dt |-> 2, targetAngles |-> NoAngles, options |-> [playerSpeedMultiplier |-> MulDen]],
    [dt |-> 1, targetAngles |-> [id \in {"player"} |-> PI \div 2],
     options |-> [playerSpeedMultiplier |-> MulDen]],
    [dt |-> 1, targetAngles |-> [id \in {"player", "snake-1"} |-> IF id = "player" THEN 0 ELSE -PI],
     options |-> [playerSpeedMultiplier |-> 2 * MulDen]],
    [dt |-> 2 * DtDen, targetAngles |-> NoAngles, options |-> [playerSpeedMultiplier |-> MulDen]],
    [dt |-> 5 * DtDen, targetAngles |-> NoAngles, options |-> [playerSpeedMultiplier |-> MulDen]] }

\* the Math.random() draws of a spawn
SpawnDraws == {DrawP, DrawR}

NoCall(st) ==
  [made |-> FALSE, input |-> st, inputAfter |-> st, dt |-> 0, targetAngles |-> NoAngles,
   options |-> [playerSpeedMultiplier |-> MulDen], rnd |-> DrawP]

Init ==
  \E seed \in Seeds, numBots \in 1..MaxBots, numPellets \in 0..MaxPellets :
    /\ DrawsAccepted(SubSeq(seed.heads, 1, numBots), ArenaBounds)
    /\ state = createInitialState(ArenaBounds, SubSeq(seed.heads, 1, numBots),
                                  SubSeq(seed.pellets, 1, numPellets))
    /\ deadIds = <<>>
    /\ call = NoCall(state)
    /\ ticks = 0

\* the host calls tick on the state it holds and keeps the returned state
Tick ==
  /\ ticks < MaxTicks
  /\ \E in \in TickInputs :
       \E rnd \in (IF SpawnFires(state, in.dt) THEN SpawnDraws ELSE {DrawP}) :
         LET out == tick(state, in.dt, in.targetAngles, in.options, rnd)
         IN /\ state' = out.state
            /\ deadIds' = out.deadIds
            /\ call' = [made |-> TRUE, input |-> state, inputAfter |-> out.input, dt |-> in.dt,
                        targetAngles |-> in.targetAngles, options |-> in.options, rnd |-> rnd]
            /\ ticks' = ticks + 1

Next == Tick

Spec == Init /\ [][Next]_vars

---------------------------------------------------------------------------
(* moveSnake on its own: one snake, moved again and again.  state holds the snake and the
   bounds, call the last moveSnake call, ticks the number of calls. *)

MaxMoves == 2

\* arenas: the host's; one of exactly 2 * SEGMENT_SPACING a side; one smaller than that
TightBounds == [width |-> 2 * SEGMENT_SPACING * Scale, height |-> 2 * SEGMENT_SPACING * Scale]
TinyBounds == [width |-> 10 * Scale, height |-> 10 * Scale]
MoveBounds == {ArenaBounds, TightBounds, TinyBounds}

\* dt in 1/DtDen s: turnSpeed * dt is 0, 1/2 and 3/2
MoveDts == {0, 1, 3}

\* the snake's own angle (no entry in targetAngles), PI, -PI and 3 PI / 2
MoveTargets(snake) == {snake.angle, PI, -PI, (3 * PI) \div 2}

\* the snakes moved: fresh ones and ones grown by a pellet, in every arena
MoveSnakes ==
  { [bounds |-> b, snake |-> GrowSnake(InitialSnake(0, d, b), g)] :
      b \in MoveBounds, d \in {DrawA, DrawB, DrawC}, g \in {0, PELLET_VALUE} }

InitMove ==
  \E m \in MoveSnakes :
    /\ state = [snakes |-> <<m.snake>>, pellets |-> <<>>, bounds |-> m.bounds,
                nextSnakeId |-> 1, nextPelletSpawn |-> PELLET_SPAWN_INTERVAL * DtDen]
    /\ deadIds = <<>>
    /\ call = [made |-> FALSE, input |-> m.snake, dt |-> 0, targetAngle |-> m.snake.angle]
    /\ ticks = 0

Move ==
  /\ ticks < MaxMoves
  /\ \E dt \in MoveDts, targetAngle \in MoveTargets(state.snakes[1]) :
       /\ state' = [state EXCEPT
                      !.snakes = <<moveSnake(state.snakes[1], dt, targetAngle, state.bounds)>>]
       /\ call' = [made |-> TRUE, input |-> state.snakes[1], dt |-> dt,
                   targetAngle |-> targetAngle]
       /\ ticks' = ticks + 1
       /\ UNCHANGED deadIds

NextMove == Move

SpecMove == InitMove /\ [][NextMove]_vars

---------------------------------------------------------------------------
(* The host's frame: the bots' target angles are computed from the state, the player's angle
   is put beside them, and tick is called with the result.  call.botAngles is what
   computeTargetAngles returned. *)

MaxFrames == 2

\* dt in 1/DtDen s
FrameDts == {1, 2}

\* the player's angle as the input layer supplies it: PI and 3 PI / 2
PlayerAngles == {PI, (3 * PI) \div 2}

Frame ==
  /\ ticks < MaxFrames
  /\ \E dt \in FrameDts, playerAngle \in PlayerAngles :
       \E rnd \in (IF SpawnFires(state, dt) THEN SpawnDraws ELSE {DrawP}) :
       \E botAngles \in {computeTargetAngles(state)} :
         LET targetAngles == [id \in DOMAIN botAngles \cup {"player"} |->
                                IF id = "player" THEN playerAngle ELSE botAngles[id]]
             options == [playerSpeedMultiplier |-> MulDen]
             out == tick(state, dt, targetAngles, options, rnd)
         IN /\ state' = out.state
            /\ deadIds' = out.deadIds
            /\ call' = [made |-> TRUE, input |-> state, inputAfter |-> out.input, dt |-> dt,
                        targetAngles |-> targetAngles, options |-> options, rnd |-> rnd,
                        botAngles |-> botAngles]
            /\ ticks' = ticks + 1

NextBot == Frame

SpecBot == Init /\ [][NextBot]_vars

---------------------------------------------------------------------------
(* The growth multiplier on its own: call holds a segment count and, once computed, the
   growthMul moveSnake uses for a snake of that many segments *)

MaxSegments == 140

InitGrowth ==
  \E len \in 1..MaxSegments :
    /\ state = createInitialState(ArenaBounds, <<>>, <<>>)
    /\ deadIds = <<>>
    /\ call = [made |-> FALSE, len |-> len, growthMul |-> GrowthDen]
    /\ ticks = 0

ComputeGrowthMul ==
  /\ ~call.made
  /\ call' = [made |-> TRUE, len |-> call.len, growthMul |-> GrowthMul(call.len)]
  /\ UNCHANGED <<state, deadIds, ticks>>

NextGrowth == ComputeGrowthMul

SpecGrowth == InitGrowth /\ [][NextGrowth]_vars

---------------------------------------------------------------------------
(* toroidalDistSq on its own: call holds two points and, once computed, the dx and dy of
   lines 146-147 and the result; state holds the bounds *)

\* an arena of 50 x 30 units, and one a hundredth wider and higher (no whole half)
GeoBounds ==
  { [width |-> 50 * Scale, height |-> 30 * Scale],
    [width |-> 50 * Scale + 1, height |-> 30 * Scale + 1] }

\* coordinates inside an axis of the given size, at its half, and beyond both of its ends
GeoCoords(size) == {-(2 * size) - 1, 0, size \div 2, size - 1, 3 * size + 7}

InitGeo ==
  \E bounds \in GeoBounds :
    \E ax \in GeoCoords(bounds.width), ay \in {0, bounds.height - 1},
       bx \in GeoCoords(bounds.width), by \in GeoCoords(bounds.height) :
      /\ state = createInitialState(bounds, <<>>, <<>>)
      /\ deadIds = <<>>
      /\ call = [made |-> FALSE, a |-> [x |-> ax, y |-> ay], b |-> [x |-> bx, y |-> by],
                 dx |-> 0, dy |-> 0, distSq |-> 0]
      /\ ticks = 0

Measure ==
  /\ ~call.made
  /\ call' = [call EXCEPT !.made = TRUE,
                          !.dx = ToroidalDelta(call.b.x - call.a.x, state.bounds.width),
                          !.dy = ToroidalDelta(call.b.y - call.a.y, state.bounds.height),
                          !.distSq = toroidalDistSq(call.a, call.b, state.bounds)]
  /\ UNCHANGED <<state, deadIds, ticks>>

NextGeo == Measure

SpecGeo == InitGeo /\ [][NextGeo]_vars

---------------------------------------------------------------------------
(* computeTargetAngles on its own: state holds a game state as play can leave it (a player and
   up to two bots, each a line of segments behind its head, wrapped into the arena), call what
   computeTargetAngles returned for it *)

WideBounds == [width |-> 1400 * Scale, height |-> 400 * Scale]

At(x, y) == [x |-> x * Scale, y |-> y * Scale]

\* a snake of len segments SEGMENT_SPACING apart in a line behind its head
LaidSnake(i, head, angle, len, bounds) ==
  [InitialSnake(i, DrawA, bounds) EXCEPT
     !.angle = angle,
     !.segments = [s \in 1..len |->
                     wrapPoint([x |-> head.x - RoundDiv(Cos(angle) * (s - 1) * SEGMENT_SPACING * Scale, TrigDen),
                                y |-> head.y - RoundDiv(Sin(angle) * (s - 1) * SEGMENT_SPACING * Scale, TrigDen)],
                               bounds)]]

\* the player: near the first bot (20, 55 and 60 units from (240, 200)), on it, across the seam
\* from (10, 200), or far from both; of the initial length or grown to 200 segments
AIPlayers(bounds) ==
  { LaidSnake(0, head, PI \div 2, len, bounds) :
      head \in {At(260, 200), At(295, 200), At(300, 200), At(240, 200), At(470, 200), At(240, 350)},
      len \in {INITIAL_LENGTH, 200} }

AIBots(bounds) ==
  { LaidSnake(1, head, angle, INITIAL_LENGTH, bounds) :
      head \in {At(240, 200), At(10, 200)}, angle \in {0, 40, -PI} }

\* the rosters: the player alone, with one bot, with two bots (the second one long, 20 units
\* below (240, 200))
AIRosters(bounds) ==
  {<<player>> : player \in {LaidSnake(0, At(260, 200), PI \div 2, INITIAL_LENGTH, bounds)}}
  \cup {<<player, bot>> : player \in AIPlayers(bounds), bot \in AIBots(bounds)}
  \cup {<<player, bot, LaidSnake(2, At(240, 220), 0, 200, bounds)>> :
          player \in {LaidSnake(0, At(260, 200), PI \div 2, 200, bounds),
                      LaidSnake(0, At(240, 350), PI \div 2, INITIAL_LENGTH, bounds)},
          bot \in AIBots(bounds)}

\* the pellets: none, one 100 units from (240, 200), two of which the second is nearer, one
\* 90 units from (10, 200) across the seam of the small arena, and in the wide arena one 700
\* units from (240, 200) and one across the seam from (10, 200)
AIPellets(bounds) ==
  LET Pellet(p) == [x |-> p.x, y |-> p.y, value |-> PELLET_VALUE]
  IN {<<>>, <<Pellet(At(340, 200))>>, <<Pellet(At(340, 200)), Pellet(At(240, 250))>>,
      <<Pellet(At(400, 200))>>}
     \cup (IF bounds = WideBounds
           THEN {<<Pellet(At(940, 200))>>, <<Pellet(At(1390, 200))>>}
           ELSE {})

InitAI ==
  \E bounds \in {ArenaBounds, WideBounds} :
    \E snakes \in AIRosters(bounds), pellets \in AIPellets(bounds) :
      /\ state = [createInitialState(bounds, <<>>, <<>>) EXCEPT
                    !.snakes = snakes, !.pellets = pellets, !.nextSnakeId = Len(snakes)]
      /\ deadIds = <<>>
      /\ call = [made |-> FALSE, input |-> state, botAngles |-> NoAngles]
      /\ ticks = 0

Steer ==
  /\ ~call.made
  /\ call' = [made |-> TRUE, input |-> state, botAngles |-> computeTargetAngles(state)]
  /\ ticks' = ticks + 1
  /\ UNCHANGED <<state, deadIds>>

NextAI == Steer

SpecAI == InitAI /\ [][NextAI]_vars

---------------------------------------------------------------------------
(* tick and createInitialState on malformed input: a snake without segments, a dt that is not
   a number, bounds with a dimension of zero.  Here a JavaScript number is <<n>> for the
   finite value n and <<>> for NaN.  state holds a well-formed game state, call the last call
   and its outcome: whether it threw, and what it returned (of a tick: the moved heads and
   nextPelletSpawn). *)

NaN == <<>>

\* a + b
JsAdd(a, b) == IF a = NaN \/ b = NaN THEN NaN ELSE <<a[1] + b[1]>>

\* a % m: NaN for m = 0
JsRem(a, m) == IF a = NaN \/ m = NaN \/ m[1] = 0 THEN NaN ELSE <<JsMod(a[1], m[1])>>

\* wrapPoint (lines 127-134) on JavaScript numbers
wrapPointJs(p, bounds) ==
  [x |-> JsRem(JsAdd(JsRem(p.x, <<bounds.width>>), <<bounds.width>>), <<bounds.width>>),
   y |-> JsRem(JsAdd(JsRem(p.y, <<bounds.height>>), <<bounds.height>>), <<bounds.height>>)]

\* newHead of moveSnake (lines 161-172) for the target snake.angle: Math.min(1, turnSpeed * dt),
\* and with it angle, dx and dy, are NaN when dt is
MovedHeadJs(snake, dt, bounds) ==
  IF dt = NaN THEN wrapPointJs([x |-> NaN, y |-> NaN], bounds)
  ELSE LET angle == TurnedAngle(snake, dt[1], snake.angle)
           len == StepLength(snake, dt[1])
       IN wrapPointJs([x |-> <<snake.segments[1].x + RoundDiv(Cos(angle) * len, TrigDen)>>,
                       y |-> <<snake.segments[1].y + RoundDiv(Sin(angle) * len, TrigDen)>>],
                      bounds)

\* tick(st, dt): head.x of line 171 throws a TypeError for a snake without segments; nothing
\* else in tick throws, and nextPelletSpawn <= 0 (line 300) is false for NaN
tickOutcome(st, dt) ==
  IF \E k \in 1..Len(st.snakes) : st.snakes[k].segments = <<>>
  THEN [threw |-> TRUE, returned |-> <<>>]
  ELSE LET left == IF dt = NaN THEN NaN ELSE <<st.nextPelletSpawn - dt[1]>>
       IN [threw |-> FALSE,
           returned |-> << [heads |-> [k \in 1..Len(st.snakes) |->
                                        MovedHeadJs(st.snakes[k], dt, st.bounds)],
                            nextPelletSpawn |-> IF left # NaN /\ left[1] <= 0
                                                THEN <<PELLET_SPAWN_INTERVAL * DtDen>>
                                                ELSE left] >>]

\* bounds with a dimension of zero
ZeroBounds ==
  { [width |-> 0, height |-> ArenaBounds.height],
    [width |-> ArenaBounds.width, height |-> 0],
    [width |-> 0, height |-> 0] }

\* the states a caller can hand to tick: st itself, st with one snake's segments emptied, st
\* with bounds of a zero dimension
FaultInputs(st) ==
  {st}
  \cup {[st EXCEPT !.snakes[k].segments = <<>>] : k \in 1..Len(st.snakes)}
  \cup {[st EXCEPT !.bounds = b] : b \in ZeroBounds}

\* dt: 1/DtDen s, 2 s, NaN
FaultDts == {<<1>>, <<2 * DtDen>>, NaN}

TickOnInput ==
  /\ ~call.made
  /\ \E input \in FaultInputs(state), dt \in FaultDts :
       call' = [made |-> TRUE, op |-> "tick", input |-> input, dt |-> dt,
                out |-> tickOutcome(input, dt)]
  /\ ticks' = ticks + 1
  /\ UNCHANGED <<state, deadIds>>

\* createInitialState({bounds}) with the draws of a seed: nothing in it throws
CreateOnBounds ==
  /\ ~call.made
  /\ \E bounds \in ZeroBounds \cup {ArenaBounds}, seed \in Seeds :
       call' = [made |-> TRUE, op |-> "createInitialState", input |-> [bounds |-> bounds],
                dt |-> <<0>>,
                out |-> [threw |-> FALSE,
                         returned |-> <<createInitialState(bounds, SubSeq(seed.heads, 1, 1),
                                                           SubSeq(seed.pellets, 1, 1))>>]]
  /\ ticks' = ticks + 1
  /\ UNCHANGED <<state, deadIds>>

NextFault == TickOnInput \/ CreateOnBounds

SpecFault == Init /\ [][NextFault]_vars

---------------------------------------------------------------------------
(* gameLogic: the grid game of SnakeCV.  state holds the snake (head first), the food, the
   grid size and whether the game is over; call the last getNextSnakeState call and what it
   returned; ticks counts the steps. *)

MaxSteps == 3

\* a variant without the test for the snake's own cells
getNextSnakeStateThroughSelf(snake, direction, food, gridSize) ==
  LET head == snake[1]
      nextHead == [x |-> head.x + direction.x, y |-> head.y + direction.y]
      hitWall == nextHead.x < 0 \/ nextHead.y < 0 \/ nextHead.x >= gridSize \/ nextHead.y >= gridSize
      ateFood == nextHead.x = food.x /\ nextHead.y = food.y
  IN IF hitWall
     THEN [nextSnake |-> snake, ateFood |-> FALSE, gameOver |-> TRUE]
     ELSE [nextSnake |-> IF ateFood THEN <<nextHead>> \o snake
                         ELSE SubSeq(<<nextHead>> \o snake, 1, Len(snake)),
           ateFood |-> ateFood,
           gameOver |-> FALSE]

\* a variant that never drops the tail
getNextSnakeStateNoPop(snake, direction, food, gridSize) ==
  LET head == snake[1]
      nextHead == [x |-> head.x + direction.x, y |-> head.y + direction.y]
      hitWall == nextHead.x < 0 \/ nextHead.y < 0 \/ nextHead.x >= gridSize \/ nextHead.y >= gridSize
      hitSelf == \E i \in 1..Len(snake) : snake[i].x = nextHead.x /\ snake[i].y = nextHead.y
  IN IF hitWall \/ hitSelf
     THEN [nextSnake |-> snake, ateFood |-> FALSE, gameOver |-> TRUE]
     ELSE [nextSnake |-> <<nextHead>> \o snake,
           ateFood |-> (nextHead.x = food.x /\ nextHead.y = food.y),
           gameOver |-> FALSE]

\* a variant whose hitSelf leaves out the tail cell, which the step would vacate
getNextSnakeStateTailFree(snake, direction, food, gridSize) ==
  LET head == snake[1]
      nextHead == [x |-> head.x + direction.x, y |-> head.y + direction.y]
      hitWall == nextHead.x < 0 \/ nextHead.y < 0 \/ nextHead.x >= gridSize \/ nextHead.y >= gridSize
      hitSelf == \E i \in 1..(Len(snake) - 1) : snake[i].x = nextHead.x /\ snake[i].y = nextHead.y
      ateFood == nextHead.x = food.x /\ nextHead.y = food.y
  IN IF hitWall \/ hitSelf
     THEN [nextSnake |-> snake, ateFood |-> FALSE, gameOver |-> TRUE]
     ELSE [nextSnake |-> IF ateFood THEN <<nextHead>> \o snake
                         ELSE SubSeq(<<nextHead>> \o snake, 1, Len(snake)),
           ateFood |-> ateFood,
           gameOver |-> FALSE]

getNextSnakeState(snake, direction, food, gridSize) ==
  LET head == snake[1]
      nextHead == [x |-> head.x + direction.x, y |-> head.y + direction.y]
      hitWall == nextHead.x < 0 \/ nextHead.y < 0 \/ nextHead.x >= gridSize \/ nextHead.y >= gridSize
      hitSelf == \E i \in 1..Len(snake) : snake[i].x = nextHead.x /\ snake[i].y = nextHead.y
      ateFood == nextHead.x = food.x /\ nextHead.y = food.y
  IN IF hitWall \/ hitSelf
     THEN [nextSnake |-> snake, ateFood |-> FALSE, gameOver |-> TRUE]
     ELSE [nextSnake |-> IF ateFood THEN <<nextHead>> \o snake
                         ELSE SubSeq(<<nextHead>> \o snake, 1, Len(snake)),
           ateFood |-> ateFood,
           gameOver |-> FALSE]

\* the cells randomFood can return: those of the grid no segment is on
randomFood(snake, gridSize) ==
  {spot \in [x : 0..(gridSize - 1), y : 0..(gridSize - 1)] :
     \A i \in 1..Len(snake) : ~(snake[i].x = spot.x /\ snake[i].y = spot.y)}

\* board sizes
GridSizes == {3, 4}

\* the unit vectors: right, left, down, up
Directions == {[x |-> 1, y |-> 0], [x |-> -1, y |-> 0], [x |-> 0, y |-> 1], [x |-> 0, y |-> -1]}

\* snakes to start from: one cell, a line of three as the game starts with, a ring of four
\* whose head is beside its tail
GridSnakes ==
  { <<[x |-> 1, y |-> 1]>>,
    <<[x |-> 2, y |-> 1], [x |-> 1, y |-> 1], [x |-> 0, y |-> 1]>>,
    <<[x |-> 1, y |-> 1], [x |-> 1, y |-> 0], [x |-> 2, y |-> 0], [x |-> 2, y |-> 1]>> }

\* the food is first drawn against the head alone (App.jsx line 37)
InitGrid ==
  \E gridSize \in GridSizes, snake \in GridSnakes :
    \E food \in randomFood(<<snake[1]>>, gridSize) :
      /\ state = [snake |-> snake, food |-> food, gridSize |-> gridSize, over |-> FALSE]
      /\ deadIds = <<>>
      /\ call = [made |-> FALSE, snake |-> snake, direction |-> [x |-> 1, y |-> 0],
                 food |-> food, gridSize |-> gridSize,
                 out |-> [nextSnake |-> snake, ateFood |-> FALSE, gameOver |-> FALSE]]
      /\ ticks = 0

\* one step of the game interval (App.jsx lines 152-176)
Step ==
  /\ ticks < MaxSteps
  /\ ~state.over
  /\ \E direction \in Directions :
       \E out \in {getNextSnakeState(state.snake, direction, state.food, state.gridSize)} :
         /\ call' = [made |-> TRUE, snake |-> state.snake, direction |-> direction,
                     food |-> state.food, gridSize |-> state.gridSize, out |-> out]
         /\ IF out.gameOver
            THEN state' = [state EXCEPT !.over = TRUE]
            ELSE IF out.ateFood
            THEN \E spot \in randomFood(out.nextSnake, state.gridSize) :
                   state' = [state EXCEPT !.snake = out.nextSnake, !.food = spot]
            ELSE state' = [state EXCEPT !.snake = out.nextSnake]
  /\ ticks' = ticks + 1
  /\ UNCHANGED deadIds

NextGrid == Step

SpecGrid == InitGrid /\ [][NextGrid]_vars

---------------------------------------------------------------------------
(* gameLogic: the loop of randomFood, one pass per step.  state holds the arguments, call the
   spot drawn last (<<>> for null) and whether the function has returned. *)

\* arguments of randomFood: the starting snakes and the snake of gameLogic.test.js on each
\* board, and a snake on every cell of a board of two by two
FoodInputs ==
  {[snake |-> snake, gridSize |-> gridSize] :
     snake \in GridSnakes \cup {<<[x |-> 1, y |-> 1], [x |-> 2, y |-> 1]>>},
     gridSize \in GridSizes}
    \cup {[snake |-> <<[x |-> 0, y |-> 0], [x |-> 1, y |-> 0], [x |-> 1, y |-> 1], [x |-> 0, y |-> 1]>>,
           gridSize |-> 2]}

InitFood ==
  /\ state \in FoodInputs
  /\ deadIds = <<>>
  /\ call = [spot |-> <<>>, returned |-> FALSE]
  /\ ticks = 0

\* one pass of the while loop (lines 47-52) and the test that follows it
DrawSpot ==
  /\ ~call.returned
  /\ \E x \in 0..(state.gridSize - 1), y \in 0..(state.gridSize - 1) :
       call' = [spot |-> <<[x |-> x, y |-> y]>>,
                returned |-> ~(\E i \in 1..Len(state.snake) :
                                 state.snake[i].x = x /\ state.snake[i].y = y)]
  /\ UNCHANGED <<state, deadIds, ticks>>

NextFood == DrawSpot

\* the loop keeps running, and Math.random over the cells of the board does not miss the
\* free cells forever
SpecFood ==
  InitFood /\ [][NextFood]_vars /\ WF_vars(DrawSpot) /\ WF_vars(DrawSpot /\ call'.returned)

---------------------------------------------------------------------------
(* useHeadTracking: the refs of the hook and the frames of its loop.  Positions are in
   1/NoseDen of the video frame.  state holds faceEnabled and the refs; the samples of a
   calibration are kept as a bag, since only their number and their median are used; call is
   the event handled last; ticks counts the samples collected since the events that can
   restart a calibration. *)

NoseDen == 100
NOSE_THRESHOLD == 6
NOSE_SMOOTHING == 50
NOSE_CENTER == 50
DIRECTION_COOLDOWN_MS == 120
CALIBRATION_SAMPLES_TARGET == 45

HEAD_DIRECTIONS ==
  [UP |-> [x |-> 0, y |-> -1], DOWN |-> [x |-> 0, y |-> 1],
   LEFT |-> [x |-> -1, y |-> 0], RIGHT |-> [x |-> 1, y |-> 0]]

\* nose positions a frame can report, and the milliseconds between two frames
Noses == {[x |-> 50, y |-> 50], [x |-> 60, y |-> 50]}
FrameGaps == {70, 130}

\* median of a bag of numbers: the middle of the sorted values, or the mean of the two middle
\* ones; 0 for none
median(values) ==
  LET n == BagCardinality(values)
      upTo(v) == BagCardinality([w \in {u \in DOMAIN values : u <= v} |-> values[w]])
      sorted(i) == CHOOSE v \in DOMAIN values : upTo(v) > i /\ upTo(v) - values[v] <= i
      mid == n \div 2
  IN IF n = 0 THEN 0
     ELSE IF n % 2 = 1 THEN sorted(mid)
     ELSE (sorted(mid - 1) + sorted(mid)) \div 2

medianPoint(points) ==
  IF BagCardinality(points) = 0 THEN [x |-> NOSE_CENTER, y |-> NOSE_CENTER]
  ELSE [x |-> median(BagOfAll(LAMBDA p : p.x, points)),
        y |-> median(BagOfAll(LAMBDA p : p.y, points))]

\* "" stands for null
getMirroredHeadDirection(normalizedNose, threshold) ==
  LET dx == normalizedNose.x - NOSE_CENTER
      dy == normalizedNose.y - NOSE_CENTER
      Abs(v) == IF v < 0 THEN -v ELSE v
      raw == IF Abs(dx) < threshold /\ Abs(dy) < threshold THEN ""
             ELSE IF Abs(dx) > Abs(dy) THEN (IF dx > 0 THEN "RIGHT" ELSE "LEFT")
             ELSE IF dy > 0 THEN "DOWN" ELSE "UP"
  IN IF raw = "LEFT" THEN "RIGHT" ELSE IF raw = "RIGHT" THEN "LEFT" ELSE raw

\* the new value of smoothedNoseRef; prev is <<>> for null
smoothPoint(prev, point) ==
  IF prev = <<>> THEN point
  ELSE [x |-> prev[1].x + ((point.x - prev[1].x) * NOSE_SMOOTHING) \div NoseDen,
        y |-> prev[1].y + ((point.y - prev[1].y) * NOSE_SMOOTHING) \div NoseDen]

NoEvent ==
  [kind |-> "none", faceEnabled |-> TRUE, face |-> FALSE, emitted |-> <<>>,
   computed |-> FALSE, threw |-> FALSE, used |-> EmptyBag]

\* the hook after its first render and effects, setup still pending
InitHead ==
  /\ \E faceEnabled \in BOOLEAN :
       state = [ready |-> FALSE, faceEnabled |-> faceEnabled, baseline |-> <<>>,
                isCalibrating |-> FALSE, samples |-> EmptyBag, smoothedNose |-> <<>>,
                sinceDirection |-> DIRECTION_COOLDOWN_MS + 1]
  /\ deadIds = <<>>
  /\ call = NoEvent
  /\ ticks = [sinceLoss |-> 0, sinceRestart |-> 0]

\* setup reaches 'ready' and starts the loop (lines 138-146, 281)
Setup ==
  /\ ~state.ready
  /\ state' = IF state.baseline = <<>>
              THEN [state EXCEPT !.ready = TRUE, !.isCalibrating = TRUE, !.samples = EmptyBag]
              ELSE [state EXCEPT !.ready = TRUE]
  /\ call' = [NoEvent EXCEPT !.kind = "setup", !.faceEnabled = state.faceEnabled]
  /\ UNCHANGED <<deadIds, ticks>>

\* a variant that does not look at faceEnabledRef
loopPassWhenOff(st, face, nose, elapsed) ==
  LET aged == [st EXCEPT !.sinceDirection = elapsed]
      quiet == [NoEvent EXCEPT !.kind = "frame", !.faceEnabled = st.faceEnabled, !.face = face]
      starts == st.baseline = <<>> /\ ~st.isCalibrating
      samples == (IF starts THEN EmptyBag ELSE st.samples) (+) SetToBag({nose})
      smoothNose == smoothPoint(st.smoothedNose,
                                [x |-> nose.x - st.baseline[1].x + NOSE_CENTER,
                                 y |-> nose.y - st.baseline[1].y + NOSE_CENTER])
      mirrored == getMirroredHeadDirection(smoothNose, NOSE_THRESHOLD)
  IN IF ~face
     THEN [state |-> IF st.isCalibrating THEN aged ELSE [aged EXCEPT !.baseline = <<>>],
           call |-> quiet]
     ELSE IF starts \/ st.isCalibrating
     THEN IF BagCardinality(samples) >= CALIBRATION_SAMPLES_TARGET
          THEN [state |-> [aged EXCEPT !.baseline = <<medianPoint(samples)>>,
                                       !.samples = EmptyBag, !.isCalibrating = FALSE,
                                       !.smoothedNose = <<>>],
                call |-> [quiet EXCEPT !.used = samples]]
          ELSE [state |-> [aged EXCEPT !.isCalibrating = TRUE, !.samples = samples],
                call |-> quiet]
     ELSE IF st.baseline = <<>>
     THEN [state |-> aged, call |-> [quiet EXCEPT !.computed = TRUE, !.threw = TRUE]]
     ELSE IF mirrored # "" /\ elapsed > DIRECTION_COOLDOWN_MS
     THEN [state |-> [aged EXCEPT !.smoothedNose = <<smoothNose>>, !.sinceDirection = 0],
           call |-> [quiet EXCEPT !.computed = TRUE, !.emitted = <<HEAD_DIRECTIONS[mirrored]>>]]
     ELSE [state |-> [aged EXCEPT !.smoothedNose = <<smoothNose>>],
           call |-> [quiet EXCEPT !.computed = TRUE]]

\* what one pass of loop leaves, for a frame with a face (nose) or without one (face FALSE)
\* that comes elapsed milliseconds after the last direction
loopPass(st, face, nose, elapsed) ==
  LET aged == [st EXCEPT !.sinceDirection = elapsed]
      quiet == [NoEvent EXCEPT !.kind = "frame", !.faceEnabled = st.faceEnabled, !.face = face]
      starts == st.baseline = <<>> /\ ~st.isCalibrating
      samples == (IF starts THEN EmptyBag ELSE st.samples) (+) SetToBag({nose})
      smoothNose == smoothPoint(st.smoothedNose,
                                [x |-> nose.x - st.baseline[1].x + NOSE_CENTER,
                                 y |-> nose.y - st.baseline[1].y + NOSE_CENTER])
      mirrored == getMirroredHeadDirection(smoothNose, NOSE_THRESHOLD)
  IN IF ~st.faceEnabled THEN [state |-> aged, call |-> quiet]
     ELSE IF ~face
     THEN [state |-> IF st.isCalibrating THEN aged ELSE [aged EXCEPT !.baseline = <<>>],
           call |-> quiet]
     ELSE IF starts \/ st.isCalibrating
     THEN IF BagCardinality(samples) >= CALIBRATION_SAMPLES_TARGET
          THEN [state |-> [aged EXCEPT !.baseline = <<medianPoint(samples)>>,
                                       !.samples = EmptyBag, !.isCalibrating = FALSE,
                                       !.smoothedNose = <<>>],
                call |-> [quiet EXCEPT !.used = samples]]
          ELSE [state |-> [aged EXCEPT !.isCalibrating = TRUE, !.samples = samples],
                call |-> quiet]
     ELSE IF st.baseline = <<>>
     THEN [state |-> aged, call |-> [quiet EXCEPT !.computed = TRUE, !.threw = TRUE]]
     ELSE IF mirrored # "" /\ elapsed > DIRECTION_COOLDOWN_MS
     THEN [state |-> [aged EXCEPT !.smoothedNose = <<smoothNose>>, !.sinceDirection = 0],
           call |-> [quiet EXCEPT !.computed = TRUE, !.emitted = <<HEAD_DIRECTIONS[mirrored]>>]]
     ELSE [state |-> [aged EXCEPT !.smoothedNose = <<smoothNose>>],
           call |-> [quiet EXCEPT !.computed = TRUE]]

\* the samples collected since the last recalibrate, lost face or switch-off (sinceLoss) and
\* since the last recalibrate, switch-off or face lost outside a calibration (sinceRestart)
counted(st, face, collected) ==
  LET more(n) == IF n < CALIBRATION_SAMPLES_TARGET THEN n + 1 ELSE n
  IN IF ~st.faceEnabled THEN ticks
     ELSE IF ~face
     THEN [sinceLoss |-> 0,
           sinceRestart |-> IF st.isCalibrating THEN ticks.sinceRestart ELSE 0]
     ELSE IF collected
     THEN [sinceLoss |-> more(ticks.sinceLoss), sinceRestart |-> more(ticks.sinceRestart)]
     ELSE ticks

\* one animation frame (lines 148-279)
loop ==
  /\ state.ready
  /\ \E face \in BOOLEAN, nose \in Noses, gap \in FrameGaps :
       \E elapsed \in {IF state.sinceDirection + gap > DIRECTION_COOLDOWN_MS
                       THEN DIRECTION_COOLDOWN_MS + 1 ELSE state.sinceDirection + gap} :
         \E pass \in {loopPass(state, face, nose, elapsed)} :
           /\ state' = pass.state
           /\ call' = pass.call
           /\ ticks' = counted(state, face, state.isCalibrating \/ state.baseline = <<>>)
  /\ UNCHANGED deadIds

\* a variant that keeps the samples collected so far
RecalibrateKeepingSamples ==
  /\ state' = [state EXCEPT !.baseline = <<>>, !.smoothedNose = <<>>, !.isCalibrating = TRUE]
  /\ call' = [NoEvent EXCEPT !.kind = "recalibrate", !.faceEnabled = state.faceEnabled]
  /\ ticks' = [sinceLoss |-> 0, sinceRestart |-> 0]
  /\ UNCHANGED deadIds

\* recalibrate (lines 81-92)
Recalibrate ==
  /\ state' = [state EXCEPT !.baseline = <<>>, !.smoothedNose = <<>>, !.samples = EmptyBag,
                            !.isCalibrating = TRUE]
  /\ call' = [NoEvent EXCEPT !.kind = "recalibrate", !.faceEnabled = state.faceEnabled]
  /\ ticks' = [sinceLoss |-> 0, sinceRestart |-> 0]
  /\ UNCHANGED deadIds

\* the Face toggle changes faceEnabled and the effects of lines 69-71 and 304-318 run
ToggleFace ==
  /\ state' = IF state.faceEnabled
              THEN [state EXCEPT !.faceEnabled = FALSE, !.baseline = <<>>,
                                 !.isCalibrating = FALSE, !.samples = EmptyBag]
              ELSE [state EXCEPT !.faceEnabled = TRUE]
  /\ call' = [NoEvent EXCEPT !.kind = "toggle", !.faceEnabled = ~state.faceEnabled]
  /\ ticks' = IF state.faceEnabled THEN [sinceLoss |-> 0, sinceRestart |-> 0] ELSE ticks
  /\ UNCHANGED deadIds

NextHead == Setup \/ loop \/ Recalibrate \/ ToggleFace

SpecHead == InitHead /\ [][NextHead]_vars

---------------------------------------------------------------------------
(* tick's spawn countdown under a fixed dt, in the numbers of the build: IEEE 754 doubles,
   written as <<hi, lo>> for (hi * 2^30 + lo) * 2^-58.  state holds nextPelletSpawn and the
   dt of the run; call whether the last tick spawned and how many ticks that took; ticks
   counts the ticks since the last spawn. *)

\* a - b for doubles a > b > 0 below 4: the exact difference, rounded to 53 significant bits,
\* ties to the even one
JsSub(a, b) ==
  LET B == 1073741824
      hi == IF a[2] >= b[2] THEN a[1] - b[1] ELSE a[1] - b[1] - 1
      lo == IF a[2] >= b[2] THEN a[2] - b[2] ELSE a[2] - b[2] + B
      q == IF hi >= 268435456 THEN 64 ELSE IF hi >= 134217728 THEN 32
           ELSE IF hi >= 67108864 THEN 16 ELSE IF hi >= 33554432 THEN 8
           ELSE IF hi >= 16777216 THEN 4 ELSE IF hi >= 8388608 THEN 2 ELSE 1
      r == lo % q
      up == 2 * r > q \/ (2 * r = q /\ ((lo - r) \div q) % 2 = 1)
      rounded == IF up THEN lo - r + q ELSE lo - r
  IN IF rounded = B THEN <<hi + 1, 0>> ELSE <<hi, rounded>>

\* the dt of a run: 0.4, 0.5 and 1 / 60 as doubles, each with the number
\* ceil(PELLET_SPAWN_INTERVAL / dt)
TimerDts ==
  { [dt |-> <<107374182, 429496736>>, ceil |-> 5],
    [dt |-> <<134217728, 0>>, ceil |-> 4],
    [dt |-> <<4473924, 286331153>>, ceil |-> 120] }

InitTimer ==
  /\ \E run \in TimerDts :
       state = [nextPelletSpawn |-> <<PELLET_SPAWN_INTERVAL * 268435456, 0>>, run |-> run]
  /\ deadIds = <<>>
  /\ call = [made |-> FALSE, spawned |-> FALSE, took |-> 0]
  /\ ticks = 0

\* lines 302-311 and 318 of a tick with the dt of the run
TimerTick ==
  LET dt == state.run.dt
      t == state.nextPelletSpawn
      runsOut == t[1] < dt[1] \/ (t[1] = dt[1] /\ t[2] <= dt[2])
  IN /\ state' = [state EXCEPT !.nextPelletSpawn =
                     IF runsOut THEN <<PELLET_SPAWN_INTERVAL * 268435456, 0>>
                     ELSE JsSub(t, dt)]
     /\ call' = [made |-> TRUE, spawned |-> runsOut, took |-> ticks + 1]
     /\ ticks' = IF runsOut THEN 0 ELSE ticks + 1
     /\ UNCHANGED deadIds

NextTimer == TimerTick

\* tick is called again and again
SpecTimer == InitTimer /\ [][NextTimer]_vars /\ WF_vars(TimerTick)

---------------------------------------------------------------------------
(* createInitialState: the placing of the heads, one pass of the do-while per step.  state
   holds the options, the heads placed so far and usedPositions; call the draw of the last
   pass, whether the number of passes so far is odd, and whether the loop over the snakes
   has ended.  The arenas are small ones, of one,
   two and four cells of 50 by 50 inside the padding, and the draws reach every cell. *)

MaxHeads == 5

InitCreate ==
  /\ \E width \in {80, 100}, height \in {80, 100}, numBots \in 0..MaxHeads :
       state = [bounds |-> [width |-> width * Scale, height |-> height * Scale],
                numBots |-> numBots, heads |-> <<>>, usedPositions |-> {}]
  /\ deadIds = <<>>
  /\ call = [made |-> FALSE, head |-> [x |-> 0, y |-> 0], placed |-> FALSE,
             oddPass |-> FALSE, ended |-> state.numBots = 0]
  /\ ticks = 0

\* one pass of lines 75-79 and, when the key is free, the rest of the loop body (lines 80-100)
DrawHead ==
  /\ Len(state.heads) < state.numBots
  /\ \E rx \in {0, 320, 639}, ry \in {0, 320, 639} :
       LET x == PaddedCoord(rx, state.bounds.width)
           y == PaddedCoord(ry, state.bounds.height)
           key == CellKey(x, y)
       IN IF key \in state.usedPositions
          THEN /\ call' = [made |-> TRUE, head |-> [x |-> x, y |-> y], placed |-> FALSE,
                           oddPass |-> ~call.oddPass, ended |-> FALSE]
               /\ UNCHANGED state
          ELSE /\ call' = [made |-> TRUE, head |-> [x |-> x, y |-> y], placed |-> TRUE,
                           oddPass |-> ~call.oddPass,
                           ended |-> Len(state.heads) + 1 = state.numBots]
               /\ state' = [state EXCEPT !.heads = Append(@, [x |-> x, y |-> y]),
                                         !.usedPositions = @ \cup {key}]
  /\ UNCHANGED <<deadIds, ticks>>

NextCreate == DrawHead

\* the loop keeps running, and Math.random does not miss the free cells forever
SpecCreate ==
  InitCreate /\ [][NextCreate]_vars /\ WF_vars(DrawHead) /\ WF_vars(DrawHead /\ call'.placed)

---------------------------------------------------------------------------
(* App: the SnakeCV game with its direction input.  state holds the snake, the food, the
   board size, whether the game is over, the direction state and queuedDirection.current;
   call is the event handled last, for a step with the direction it applied and the one
   applied before; ticks counts the steps. *)

\* the game as App starts it: a line of three heading right, the food drawn against the head
InitApp ==
  /\ \E gridSize \in GridSizes :
       \E food \in randomFood(<<[x |-> 2, y |-> 1]>>, gridSize) :
         state = [snake |-> <<[x |-> 2, y |-> 1], [x |-> 1, y |-> 1], [x |-> 0, y |-> 1]>>,
                  food |-> food, gridSize |-> gridSize, over |-> FALSE,
                  direction |-> [x |-> 1, y |-> 0], queuedDirection |-> [x |-> 1, y |-> 0]]
  /\ deadIds = <<>>
  /\ call = [kind |-> "none", vec |-> [x |-> 1, y |-> 0], applied |-> [x |-> 1, y |-> 0],
             before |-> [x |-> 1, y |-> 0]]
  /\ ticks = 0

\* onDirectionChange of the head tracking (lines 52-56)
handleDirectionChange ==
  /\ \E vec \in Directions :
       LET cur == state.queuedDirection
       IN /\ state' = IF cur.x + vec.x = 0 /\ cur.y + vec.y = 0 THEN state
                      ELSE [state EXCEPT !.queuedDirection = vec]
          /\ call' = [call EXCEPT !.kind = "head", !.vec = vec]
  /\ UNCHANGED <<deadIds, ticks>>

\* keydown of an arrow or WASD key (lines 140-143)
handleKey ==
  /\ \E next \in Directions :
       /\ state' = IF state.direction.x + next.x = 0 /\ state.direction.y + next.y = 0
                   THEN state
                   ELSE [state EXCEPT !.queuedDirection = next]
       /\ call' = [call EXCEPT !.kind = "key", !.vec = next]
  /\ UNCHANGED <<deadIds, ticks>>

\* one step of the game interval (lines 152-176)
IntervalStep ==
  /\ ticks < MaxSteps
  /\ ~state.over
  /\ \E nextDirection \in {state.queuedDirection} :
       \E out \in {getNextSnakeState(state.snake, nextDirection, state.food, state.gridSize)} :
         /\ call' = [kind |-> "step", vec |-> nextDirection, applied |-> nextDirection,
                     before |-> state.direction]
         /\ IF out.gameOver
            THEN state' = [state EXCEPT !.direction = nextDirection, !.over = TRUE]
            ELSE IF out.ateFood
            THEN \E spot \in randomFood(out.nextSnake, state.gridSize) :
                   state' = [state EXCEPT !.direction = nextDirection,
                                          !.snake = out.nextSnake, !.food = spot]
            ELSE state' = [state EXCEPT !.direction = nextDirection, !.snake = out.nextSnake]
  /\ ticks' = ticks + 1
  /\ UNCHANGED deadIds

NextApp == handleDirectionChange \/ handleKey \/ IntervalStep

SpecApp == InitApp /\ [][NextApp]_vars

---------------------------------------------------------------------------
(* Vocabulary of the properties: the last call seen from outside *)

\* distance along one axis of the torus between coordinates a and b
AxisDist(a, b, size) == Min((b - a) % size, (a - b) % size)

\* p and q are strictly closer than r world units on the torus
Within(p, q, r, bounds) ==
  LET ax == AxisDist(p.x, q.x, bounds.width)
      ay == AxisDist(p.y, q.y, bounds.height)
  IN ax * ax + ay * ay < (r * Scale) * (r * Scale)

IdsOf(snakes) == {snakes[k].id : k \in 1..Len(snakes)}
Range(seq) == {seq[k] : k \in 1..Len(seq)}

RECURSIVE SeqSum(_)
SeqSum(seq) == IF seq = <<>> THEN 0 ELSE seq[1] + SeqSum(Tail(seq))

\* the snakes of the last call's input, each where this tick's movement puts it
Moved == MovePhase(call.input, call.dt, call.targetAngles, call.options)

\* head is in collision range of some segment of body
HeadStrikes(head, body, bounds) ==
  \E i \in 1..Len(body) : Within(head, body[i], HEAD_RADIUS + BODY_RADIUS, bounds)

\* the head of snakes[k] is in collision range of a segment of another snake of snakes
StrikesAnother(snakes, k, bounds) ==
  \E j \in 1..Len(snakes) :
    /\ snakes[j].id # snakes[k].id
    /\ HeadStrikes(snakes[k].segments[1], snakes[j].segments, bounds)

\* the head of snakes[k] is in pickup range of pellet
Reaches(snakes, k, pellet, bounds) ==
  Within(snakes[k].segments[1], pellet, HEAD_RADIUS + PELLET_RADIUS + MAGNET_RADIUS, bounds)

\* the pellets of the last call's input that no head of snakes reaches, in their order
Untouched(snakes) ==
  SelectSeq(call.input.pellets,
            LAMBDA p : \A k \in 1..Len(snakes) : ~Reaches(snakes, k, p, call.input.bounds))

\* the lengthGain of snakes[k]: the values of the input pellets its head reaches and no head
\* earlier in the array reaches
Gain(snakes, k) ==
  SeqSum([i \in 1..Len(call.input.pellets) |->
            IF /\ Reaches(snakes, k, call.input.pellets[i], call.input.bounds)
               /\ \A j \in 1..(k - 1) : ~Reaches(snakes, j, call.input.pellets[i], call.input.bounds)
            THEN call.input.pellets[i].value ELSE 0])

\* the body of snakes[k] after growth: Gain copies of its tail behind its segments
GrownBody(snakes, k) ==
  snakes[k].segments \o [g \in 1..Gain(snakes, k) |-> snakes[k].segments[Len(snakes[k].segments)]]

\* the countdown of the last call's input runs out within its dt
SpawnDue == call.input.nextPelletSpawn - call.dt <= 0

---------------------------------------------------------------------------
(* C1 *)

\* C1: two snakes whose heads each end the tick's movement within HEAD_RADIUS+BODY_RADIUS of a
\* segment of the other are both in deadIds and both absent from the returned state
C1_MutualDeath ==
  call.made =>
    LET moved == Moved
    IN \A a, b \in 1..Len(moved) :
         ( /\ moved[a].id # moved[b].id
           /\ HeadStrikes(moved[a].segments[1], moved[b].segments, call.input.bounds)
           /\ HeadStrikes(moved[b].segments[1], moved[a].segments, call.input.bounds) )
         => /\ {moved[a].id, moved[b].id} \subseteq Range(deadIds)
            /\ {moved[a].id, moved[b].id} \cap IdsOf(state.snakes) = {}

\* two heads ended the tick within collision range of each other, and both snakes are gone
C1_Witness ==
  /\ call.made
  /\ LET moved == Moved
     IN \E a, b \in 1..Len(moved) :
          /\ moved[a].id # moved[b].id
          /\ Within(moved[a].segments[1], moved[b].segments[1], HEAD_RADIUS + BODY_RADIUS,
                    call.input.bounds)
          /\ {moved[a].id, moved[b].id} \subseteq Range(deadIds)
          /\ {moved[a].id, moved[b].id} \cap IdsOf(state.snakes) = {}

---------------------------------------------------------------------------
(* C2 *)

Orderings(n) == {f \in [1..n -> 1..n] : \A i, j \in 1..n : i # j => f[i] # f[j]}

\* the last call's input with its snakes array reordered by f
Reordered(f) ==
  [call.input EXCEPT !.snakes = [k \in 1..Len(call.input.snakes) |-> call.input.snakes[f[k]]]]

TickOfReordered(f) == tick(Reordered(f), call.dt, call.targetAngles, call.options, call.rnd)

\* C2: whatever the order of state.snakes, the same dt and targetAngles give the same set of
\* dead ids and the same set of surviving ids
C2_OrderIndependent ==
  call.made =>
    \A f \in Orderings(Len(call.input.snakes)) :
      LET out == TickOfReordered(f)
      IN /\ Range(out.deadIds) = Range(deadIds)
         /\ IdsOf(out.state.snakes) = IdsOf(state.snakes)

\* a snake died in a tick where the order decided which of two snakes collected a pellet:
\* some reordering leaves a survivor with another length
C2_Witness ==
  /\ call.made
  /\ deadIds # <<>>
  /\ \E f \in Orderings(Len(call.input.snakes)) :
       LET out == TickOfReordered(f)
       IN \E k \in 1..Len(state.snakes), m \in 1..Len(out.state.snakes) :
            /\ out.state.snakes[m].id = state.snakes[k].id
            /\ Len(out.state.snakes[m].segments) # Len(state.snakes[k].segments)

---------------------------------------------------------------------------
(* C3 *)

\* C3: every snake in deadIds has its moved head in collision range of a segment of a different
\* snake, and a tick on a state that holds exactly one snake returns no dead id and keeps it
C3_SelfCollisionNotFatal ==
  call.made =>
    LET moved == Moved
    IN /\ \A k \in 1..Len(moved) :
            moved[k].id \in Range(deadIds) =>
              \E j \in 1..Len(moved) :
                /\ moved[j].id # moved[k].id
                /\ HeadStrikes(moved[k].segments[1], moved[j].segments, call.input.bounds)
       /\ Len(call.input.snakes) = 1 =>
            (deadIds = <<>> /\ IdsOf(state.snakes) = IdsOf(call.input.snakes))

\* a lone snake survived every tick although its head is within collision range of its own body
C3_Witness ==
  /\ ticks = MaxTicks
  /\ Len(call.input.snakes) = 1
  /\ Len(state.snakes) = 1
  /\ HeadStrikes(state.snakes[1].segments[1], Tail(state.snakes[1].segments), state.bounds)

---------------------------------------------------------------------------
(* C4 *)

\* C4: deadIds holds, once each, exactly the snakes whose moved head is strictly within
\* HEAD_RADIUS+BODY_RADIUS of a segment of a different snake; every other snake survives
C4_DeadExactlyStrikers ==
  call.made =>
    LET moved == Moved
    IN /\ Range(deadIds) =
            {moved[k].id : k \in {j \in 1..Len(moved) : StrikesAnother(moved, j, call.input.bounds)}}
       /\ \A i, j \in 1..Len(deadIds) : i # j => deadIds[i] # deadIds[j]
       /\ IdsOf(state.snakes) = IdsOf(call.input.snakes) \ Range(deadIds)

\* a snake ran its head into the body of a snake that survived the tick
C4_Witness ==
  /\ call.made
  /\ LET moved == Moved
     IN \E a, b \in 1..Len(moved) :
          /\ moved[a].id # moved[b].id
          /\ HeadStrikes(moved[a].segments[1], moved[b].segments, call.input.bounds)
          /\ moved[a].id \in Range(deadIds)
          /\ moved[b].id \in IdsOf(state.snakes)

---------------------------------------------------------------------------
(* C5 *)

\* C5: collision and pickup are both decided on the positions after this tick's movement:
\* a snake dies iff its moved head strikes the moved body of another snake, whatever the
\* positions before the tick were, and the returned pellets start with exactly the input
\* pellets that no moved head reaches
C5_DecidedAfterMove ==
  call.made =>
    LET moved == Moved
        kept == Untouched(moved)
    IN /\ \A k \in 1..Len(moved) :
            moved[k].id \in Range(deadIds) <=> StrikesAnother(moved, k, call.input.bounds)
       /\ Len(state.pellets) >= Len(kept)
       /\ SubSeq(state.pellets, 1, Len(kept)) = kept

\* a snake that was clear of every body before the tick moved into one and died in that tick,
\* and a pellet that a head reached before the tick but no moved head reaches is still there
C5_Witness ==
  /\ call.made
  /\ LET moved == Moved
     IN /\ \E k \in 1..Len(moved) :
             /\ ~StrikesAnother(call.input.snakes, k, call.input.bounds)
             /\ StrikesAnother(moved, k, call.input.bounds)
             /\ moved[k].id \in Range(deadIds)
        /\ \E i \in 1..Len(call.input.pellets) :
             /\ \E k \in 1..Len(moved) :
                  Reaches(call.input.snakes, k, call.input.pellets[i], call.input.bounds)
             /\ \A k \in 1..Len(moved) :
                  ~Reaches(moved, k, call.input.pellets[i], call.input.bounds)
             /\ call.input.pellets[i] \in Range(state.pellets)

---------------------------------------------------------------------------
(* C6 *)

\* max(1, floor(len * DEATH_PELLET_FRACTION))
DeathPelletCount(len) ==
  IF DEATH_PELLET_FRACTION * len < FractionDen THEN 1
  ELSE (DEATH_PELLET_FRACTION * len) \div FractionDen

\* the snake of the last call's input with this id
InputSnake(id) == CHOOSE s \in Range(call.input.snakes) : s.id = id

\* C6: pellets after = pellets before - collected + (1 if the spawn timer fired) + the sum over
\* the dead snakes of max(1, floor(length * DEATH_PELLET_FRACTION)), length being the segment
\* count the dead snake has in the input state
C6_PelletConservation ==
  call.made =>
    LET moved == Moved
        collectedCount == Len(call.input.pellets) - Len(Untouched(moved))
    IN Len(state.pellets) =
         Len(call.input.pellets) - collectedCount + (IF SpawnDue THEN 1 ELSE 0)
           + SeqSum([j \in 1..Len(deadIds) |->
                       DeathPelletCount(Len(InputSnake(deadIds[j]).segments))])

\* a snake collected two pellets in the tick in which it died
C6_Witness ==
  /\ call.made
  /\ LET moved == Moved
     IN \E k \in 1..Len(moved) :
          /\ moved[k].id \in Range(deadIds)
          /\ Gain(moved, k) >= 2 * PELLET_VALUE

---------------------------------------------------------------------------
(* C7 *)

\* C7: once tick has returned, the state object that was passed in is as it was before the call
C7_InputUnchanged == call.made => call.inputAfter = call.input

---------------------------------------------------------------------------
(* C8 *)

\* C8: a second call of tick on the same state object, with the same dt, targetAngles, options
\* and random draws, returns the state and deadIds of the first call
C8_SecondCallAgrees ==
  call.made =>
    LET again == tick(call.inputAfter, call.dt, call.targetAngles, call.options, call.rnd)
    IN again.state = state /\ again.deadIds = deadIds

---------------------------------------------------------------------------
(* C9 *)

\* the pellets C9 expects for the dead ids from index j on: each body sampled as it was
\* immediately before removal, moved and grown
RECURSIVE ExpectedDeathPellets(_, _)
ExpectedDeathPellets(moved, j) ==
  IF j > Len(deadIds) THEN <<>>
  ELSE LET k == CHOOSE i \in 1..Len(moved) : moved[i].id = deadIds[j]
       IN DeathPellets([segments |-> GrownBody(moved, k)]) \o ExpectedDeathPellets(moved, j + 1)

\* C9: the pellets added for the dead snakes are max(1, floor(length * DEATH_PELLET_FRACTION))
\* evenly strided segment positions of each body as moved and grown in this tick
C9_DeathPelletsFromRemovedBody ==
  call.made =>
    LET moved == Moved
        kept == Untouched(moved)
    IN SubSeq(state.pellets, Len(kept) + 1, Len(state.pellets) - (IF SpawnDue THEN 1 ELSE 0))
         = ExpectedDeathPellets(moved, 1)

---------------------------------------------------------------------------
(* C10 *)

\* C10: every snake in the returned state has its moved segments, in order, followed by
\* lengthGain copies of its moved tail, lengthGain being the summed values of the pellets it removed
C10_GrowthByGain ==
  call.made =>
    LET moved == Moved
    IN \A m \in 1..Len(state.snakes) :
         \E k \in 1..Len(moved) :
           /\ moved[k].id = state.snakes[m].id
           /\ state.snakes[m].segments = GrownBody(moved, k)

\* a surviving snake removed two pellets and grew by their summed values, while a pellet at
\* exactly the pickup distance from its moved head stayed
C10_Witness ==
  /\ call.made
  /\ LET moved == Moved
     IN \E m \in 1..Len(state.snakes), k \in 1..Len(moved) :
          /\ moved[k].id = state.snakes[m].id
          /\ Gain(moved, k) = 2 * PELLET_VALUE
          /\ Len(state.snakes[m].segments) = Len(call.input.snakes[k].segments) + 2 * PELLET_VALUE

---------------------------------------------------------------------------
(* C11 *)

\* p lies in the padded interior of bounds
InPaddedInterior(p, bounds) ==
  /\ ARENA_PADDING * Scale <= p.x /\ p.x <= bounds.width - ARENA_PADDING * Scale
  /\ ARENA_PADDING * Scale <= p.y /\ p.y <= bounds.height - ARENA_PADDING * Scale

\* the number of pellets the last call added beyond the kept ones and the death pellets
SpawnedCount(moved) ==
  Len(state.pellets) - Len(Untouched(moved))
    - SeqSum([j \in 1..Len(deadIds) |-> DeathPelletCount(Len(InputSnake(deadIds[j]).segments))])

\* C11: the countdown goes down by dt; when the result is <= 0 the tick adds exactly one pellet,
\* of value PELLET_VALUE and inside the padded interior, and stores PELLET_SPAWN_INTERVAL;
\* otherwise it adds none and stores the result
C11_SpawnTimer ==
  call.made =>
    LET moved == Moved
        left == call.input.nextPelletSpawn - call.dt
    IN IF left <= 0
       THEN /\ SpawnedCount(moved) = 1
            /\ state.pellets[Len(state.pellets)].value = PELLET_VALUE
            /\ InPaddedInterior(state.pellets[Len(state.pellets)], state.bounds)
            /\ state.nextPelletSpawn = PELLET_SPAWN_INTERVAL * DtDen
       ELSE /\ SpawnedCount(moved) = 0
            /\ state.nextPelletSpawn = left

\* the countdown went more than a whole interval below zero and one pellet was added
C11_Witness ==
  /\ call.made
  /\ call.input.nextPelletSpawn - call.dt < -(PELLET_SPAWN_INTERVAL * DtDen)
  /\ SpawnedCount(Moved) = 1
  /\ state.nextPelletSpawn = PELLET_SPAWN_INTERVAL * DtDen

---------------------------------------------------------------------------
(* C12 *)

\* C12: a tick with an empty targetAngles map, or with a map that lacks a snake's id, returns
\* that snake with the angle it had in the input state
C12_MissingTargetKeepsHeading ==
  call.made =>
    \A m \in 1..Len(state.snakes) :
      state.snakes[m].id \notin DOMAIN call.targetAngles =>
        state.snakes[m].angle = InputSnake(state.snakes[m].id).angle

\* a tick with an empty map returned a snake whose heading is not 0, the heading it had
C12_Witness ==
  /\ call.made
  /\ call.targetAngles = NoAngles
  /\ \E m \in 1..Len(state.snakes) :
       /\ state.snakes[m].angle # 0
       /\ state.snakes[m].angle = InputSnake(state.snakes[m].id).angle

---------------------------------------------------------------------------
(* C13 *)

\* the ids of snakes, in array order
IdSeq(snakes) == [k \in 1..Len(snakes) |-> snakes[k].id]

\* C13: the ids of the live snakes are pairwise distinct; the initial state has exactly one
\* player; the ids a tick returns are the input ids minus deadIds, in the input order, so no
\* snake appears after initialization and the number of live snakes never grows
C13_IdsUniqueAndStable ==
  /\ \A i, j \in 1..Len(state.snakes) : i # j => state.snakes[i].id # state.snakes[j].id
  /\ ~call.made => Cardinality({k \in 1..Len(state.snakes) : state.snakes[k].isPlayer}) = 1
  /\ call.made =>
       /\ IdsOf(state.snakes) = IdsOf(call.input.snakes) \ Range(deadIds)
       /\ IdSeq(state.snakes) =
            SelectSeq(IdSeq(call.input.snakes), LAMBDA id : id \notin Range(deadIds))
       /\ Len(state.snakes) <= Len(call.input.snakes)

\* a tick reported two dead snakes and returned a state without them
C13_Witness ==
  /\ call.made
  /\ Len(deadIds) = 2
  /\ Len(state.snakes) = Len(call.input.snakes) - 2
  /\ Range(deadIds) \cap IdsOf(state.snakes) = {}

---------------------------------------------------------------------------
(* C14 *)

\* C14: the initial state holds numBots snakes of INITIAL_LENGTH segments each, and every
\* pellet and every snake segment lies within the padded interior
C14_InitialStateInPaddedInterior ==
  ~call.made =>
    /\ Len(state.snakes) = state.nextSnakeId
    /\ \A k \in 1..Len(state.snakes) :
         /\ Len(state.snakes[k].segments) = INITIAL_LENGTH
         /\ \A i \in 1..INITIAL_LENGTH :
              InPaddedInterior(state.snakes[k].segments[i], state.bounds)
    /\ \A p \in 1..Len(state.pellets) : InPaddedInterior(state.pellets[p], state.bounds)

---------------------------------------------------------------------------
(* C15 *)

\* squared distance of p and q on the torus
TorusDistSq(p, q, bounds) ==
  LET ax == AxisDist(p.x, q.x, bounds.width)
      ay == AxisDist(p.y, q.y, bounds.height)
  IN ax * ax + ay * ay

\* every two consecutive segments are SEGMENT_SPACING apart on the torus, give or take eps
\* hundredths of a unit
Spaced(segments, bounds, eps) ==
  \A i \in 1..(Len(segments) - 1) :
    LET d == TorusDistSq(segments[i], segments[i + 1], bounds)
    IN /\ (SEGMENT_SPACING * Scale - eps) * (SEGMENT_SPACING * Scale - eps) <= d
       /\ d <= (SEGMENT_SPACING * Scale + eps) * (SEGMENT_SPACING * Scale + eps)

\* segments i and i+1 lie on the two sides of the wrap seam
AcrossSeam(segments, bounds) ==
  \E i \in 1..(Len(segments) - 1) :
    (segments[i].x - segments[i + 1].x) * (segments[i].x - segments[i + 1].x)
      + (segments[i].y - segments[i + 1].y) * (segments[i].y - segments[i + 1].y)
      > TorusDistSq(segments[i], segments[i + 1], bounds)

\* C15 as stated: after any moveSnake call, in any bounds, consecutive segments are
\* SEGMENT_SPACING apart on the torus within a small epsilon
C15_SpacingInAnyBounds ==
  call.made => Spaced(state.snakes[1].segments, state.bounds, 1)

\* C15, amended: after any moveSnake call in bounds at least 2 * SEGMENT_SPACING wide and
\* high, consecutive segments are SEGMENT_SPACING apart on the torus within a small epsilon
C15_SpacingInRoomyBounds ==
  ( /\ call.made
    /\ state.bounds.width >= 2 * SEGMENT_SPACING * Scale
    /\ state.bounds.height >= 2 * SEGMENT_SPACING * Scale )
  => Spaced(state.snakes[1].segments, state.bounds, 1)

\* a chain whose last segments were copies of the tail has been moved and lies across the seam,
\* every link SEGMENT_SPACING long
C15_Witness ==
  /\ call.made
  /\ state.bounds.width >= 2 * SEGMENT_SPACING * Scale
  /\ state.bounds.height >= 2 * SEGMENT_SPACING * Scale
  /\ call.input.segments[Len(call.input.segments)]
       = call.input.segments[Len(call.input.segments) - 1]
  /\ AcrossSeam(state.snakes[1].segments, state.bounds)
  /\ Spaced(state.snakes[1].segments, state.bounds, 1)

---------------------------------------------------------------------------
(* C16 *)

\* a and b are the same heading: they differ by whole turns
SameHeading(a, b) == (a - b) % (2 * PI) = 0

\* the signed turns of at most half a circle that lead from heading a to heading b: one, or
\* both PI and -PI when b is opposite to a
ShortestArcs(a, b) == {k \in (-PI)..PI : SameHeading(a + k, b)}

\* C16: for dt >= 0 the new heading is the old one turned by the shortest arc to the target
\* times min(1, turnSpeed * dt): it lies on that arc, never beyond the target, and is the
\* target when turnSpeed * dt >= 1
C16_TurnOnShortestArc ==
  call.made =>
    LET old == call.input.angle
        new == state.snakes[1].angle
        frac == IF call.input.turnSpeed * call.dt >= DtDen THEN DtDen
                ELSE call.input.turnSpeed * call.dt
    IN /\ \E k \in ShortestArcs(old, call.targetAngle) :
            \E j \in (-PI)..PI :
              /\ SameHeading(new, old + j)
              /\ (0 <= j /\ j <= k) \/ (k <= j /\ j <= 0)
              /\ 2 * (j * DtDen - k * frac) <= DtDen
              /\ 2 * (k * frac - j * DtDen) <= DtDen
       /\ call.input.turnSpeed * call.dt >= DtDen => SameHeading(new, call.targetAngle)

\* a call with turnSpeed * dt = 3/2 and a target a quarter turn or more away ended on the target
C16_Witness ==
  /\ call.made
  /\ call.input.turnSpeed * call.dt > DtDen
  /\ \A k \in ShortestArcs(call.input.angle, call.targetAngle) : k >= PI \div 2 \/ k <= -(PI \div 2)
  /\ SameHeading(state.snakes[1].angle, call.targetAngle)

---------------------------------------------------------------------------
(* C17 *)

\* C17 as stated: every heading moveSnake stores and every heading computeTargetAngles
\* returns lies in (-PI, PI]; -PI itself never appears
C17_HeadingsHalfOpen ==
  call.made =>
    /\ \A k \in 1..Len(state.snakes) : -PI < state.snakes[k].angle /\ state.snakes[k].angle <= PI
    /\ \A id \in DOMAIN call.botAngles : -PI < call.botAngles[id] /\ call.botAngles[id] <= PI

\* C17, amended: every heading moveSnake stores and every heading computeTargetAngles returns
\* lies in [-PI, PI]
C17_HeadingsClosed ==
  call.made =>
    /\ \A k \in 1..Len(state.snakes) : -PI <= state.snakes[k].angle /\ state.snakes[k].angle <= PI
    /\ \A id \in DOMAIN call.botAngles : -PI <= call.botAngles[id] /\ call.botAngles[id] <= PI

\* with no pellet to seek, computeTargetAngles returned -PI for a bot, and moveSnake stored
\* -PI as its heading
C17_Witness ==
  /\ call.made
  /\ call.input.pellets = <<>>
  /\ \E k \in 1..Len(state.snakes) :
       /\ state.snakes[k].id \in DOMAIN call.botAngles
       /\ call.botAngles[state.snakes[k].id] = -PI
       /\ state.snakes[k].angle = -PI

---------------------------------------------------------------------------
(* C18 *)

\* C18: the growth multiplier of a segment count is at least that of every smaller count, is 1
\* up to INITIAL_LENGTH segments, and never exceeds SPEED_GROWTH_CAP
C18_GrowthMultiplierMonotoneCapped ==
  call.made =>
    /\ \A shorter \in 1..call.len : GrowthMul(shorter) <= call.growthMul
    /\ call.len <= INITIAL_LENGTH => call.growthMul = GrowthDen
    /\ call.growthMul <= SPEED_GROWTH_CAP
    /\ call.growthMul >= GrowthDen

\* a snake so long that 1 + extra * SPEED_GROWTH_PER_SEGMENT is above the cap got the cap
C18_Witness ==
  /\ call.made
  /\ GrowthDen + (call.len - INITIAL_LENGTH) * SPEED_GROWTH_PER_SEGMENT > SPEED_GROWTH_CAP
  /\ call.growthMul = SPEED_GROWTH_CAP

---------------------------------------------------------------------------
(* C19 *)

\* p lies in [0, width) x [0, height)
InArena(p, bounds) ==
  /\ 0 <= p.x /\ p.x < bounds.width
  /\ 0 <= p.y /\ p.y < bounds.height

\* coordinates at, next to and far beyond both ends of an axis of the given size
ProbeCoords(size) ==
  {-(3 * size) - 7, -(2 * size), -size - 1, -size, -1, 0, 1, size - 1, size, size + 1,
   2 * size, 3 * size + 7}

\* C19: wrapPoint maps every point, also one with negative or far out-of-range coordinates,
\* into [0, width) x [0, height), and every segment of every snake that tick returns lies
\* in that range, also when the input state had segments outside it
C19_WrappedIntoArena ==
  /\ \A x \in ProbeCoords(state.bounds.width), y \in ProbeCoords(state.bounds.height) :
       InArena(wrapPoint([x |-> x, y |-> y], state.bounds), state.bounds)
  /\ call.made =>
       \A k \in 1..Len(state.snakes) :
         \A i \in 1..Len(state.snakes[k].segments) :
           InArena(state.snakes[k].segments[i], state.bounds)

\* a snake that had a segment left of the arena in the input state, and has grown in this tick,
\* is returned with every segment inside the arena
C19_Witness ==
  /\ call.made
  /\ \E k \in 1..Len(state.snakes) :
       LET before == InputSnake(state.snakes[k].id)
       IN /\ \E i \in 1..Len(before.segments) : before.segments[i].x < 0
          /\ Len(state.snakes[k].segments) > Len(before.segments)
          /\ \A i \in 1..Len(state.snakes[k].segments) :
               InArena(state.snakes[k].segments[i], state.bounds)

---------------------------------------------------------------------------
(* C20 *)

\* squared distance of p and q in the plane
PlanarDistSq(p, q) == (q.x - p.x) * (q.x - p.x) + (q.y - p.y) * (q.y - p.y)

\* C20: toroidalDistSq(a, b, bounds) is at most the planar squared distance of a and b, and
\* each per-axis toroidal delta is at most half of the axis's dimension in magnitude
C20_ToroidalAtMostPlanar ==
  call.made =>
    /\ call.distSq <= PlanarDistSq(call.a, call.b)
    /\ call.distSq = call.dx * call.dx + call.dy * call.dy
    /\ 2 * call.dx <= state.bounds.width /\ -2 * call.dx <= state.bounds.width
    /\ 2 * call.dy <= state.bounds.height /\ -2 * call.dy <= state.bounds.height

\* two points whose way across the seam is shorter than the way in the plane, exactly half
\* the width apart along x
C20_Witness ==
  /\ call.made
  /\ call.distSq < PlanarDistSq(call.a, call.b)
  /\ 2 * call.dx = state.bounds.width \/ -2 * call.dx = state.bounds.width

---------------------------------------------------------------------------
(* C21 *)

\* the reach of the avoidance, in world units
DangerReach == HEAD_RADIUS + BODY_RADIUS + DANGER_RADIUS

\* p and q are strictly closer than r world units on the torus, in arenas of any size
TorusNear(p, q, r, bounds) ==
  SqLess(distSq([x |-> 0, y |-> 0],
                [x |-> AxisDist(p.x, q.x, bounds.width), y |-> AxisDist(p.y, q.y, bounds.height)]),
         WholeSq(r))

\* the bots of a state, as indices of st.snakes
BotsOf(st) == {k \in 1..Len(st.snakes) : ~st.snakes[k].isPlayer}

\* C21: collision, pellet pickup and obstacle avoidance all use the toroidal distance: a head
\* and a segment or pellet that are close across the seam are close for each of the three
C21_ProximityIsToroidal ==
  call.made =>
    LET st == call.input
    IN \A k \in 1..Len(st.snakes) :
         LET head == st.snakes[k].segments[1]
         IN /\ \A j \in 1..Len(st.snakes) :
                 (j # k /\ k \in BotsOf(st)
                  /\ TorusNear(head, st.snakes[j].segments[1], DangerReach, st.bounds)
                  /\ ~TorusNear(head, st.snakes[j].segments[1], 1, st.bounds))
                 => InDanger(distSq(head, st.snakes[j].segments[1]), DangerReach)
            /\ st.bounds = ArenaBounds =>
                 /\ (\E j \in 1..Len(st.snakes) :
                       /\ j # k
                       /\ \E i \in 1..Len(st.snakes[j].segments) :
                            TorusNear(head, st.snakes[j].segments[i],
                                      HEAD_RADIUS + BODY_RADIUS, st.bounds))
                    => headHitsBody(st.snakes[k].id, head, st.snakes, st.bounds)
                 /\ LET scan == CollectScan(head, st.pellets, Len(st.pellets), 0, st.bounds)
                    IN \A i \in 1..Len(scan.pellets) :
                         ~TorusNear(head, scan.pellets[i],
                                    HEAD_RADIUS + PELLET_RADIUS + MAGNET_RADIUS, st.bounds)

---------------------------------------------------------------------------
(* C22 *)

\* C22: the keys of the object computeTargetAngles returns are exactly the ids of the snakes
\* that are not the player; the player's id is not a key, so the player's own angle survives
\* the merge with the result whichever of the two is spread first
C22_EntriesForBotsOnly ==
  call.made =>
    LET st == call.input
    IN /\ DOMAIN call.botAngles = {st.snakes[k].id : k \in BotsOf(st)}
       /\ \A k \in 1..Len(st.snakes) :
            st.snakes[k].isPlayer =>
              /\ st.snakes[k].id \notin DOMAIN call.botAngles
              /\ \A playerAngle \in PlayerAngles :
                   LET own == [id \in {st.snakes[k].id} |-> playerAngle]
                   IN /\ (own @@ call.botAngles)[st.snakes[k].id] = playerAngle
                      /\ (call.botAngles @@ own)[st.snakes[k].id] = playerAngle

\* a player and two bots: the result has the two bots' entries
C22_Witness ==
  /\ call.made
  /\ Len(call.input.snakes) = 3
  /\ call.input.snakes[1].isPlayer
  /\ DOMAIN call.botAngles = {"snake-1", "snake-2"}

---------------------------------------------------------------------------
(* C23 *)

\* no pellet of st is within the seek radius of the head of st.snakes[k]
NoPelletInSeekRange(st, k) ==
  \A i \in 1..Len(st.pellets) :
    ~SqLess(distSq(st.snakes[k].segments[1], st.pellets[i]), WholeSq(PELLET_SEEK_RADIUS))

\* no segment of another snake is within the reach of the avoidance of the head of
\* st.snakes[k], neither in the plane nor across the seam
NoDangerInRange(st, k) ==
  \A j \in 1..Len(st.snakes) :
    j # k => \A i \in 1..Len(st.snakes[j].segments) :
               ~TorusNear(st.snakes[k].segments[1], st.snakes[j].segments[i], DangerReach, st.bounds)

\* C23: for a bot with no pellet in seek range and no danger in range, computeTargetAngles
\* returns the bot's heading, and the tick that is given the result leaves that heading as it is
C23_QuietBotKeepsHeading ==
  call.made =>
    \A k \in BotsOf(call.input) :
      (NoPelletInSeekRange(call.input, k) /\ NoDangerInRange(call.input, k)) =>
        /\ call.botAngles[call.input.snakes[k].id] = call.input.snakes[k].angle
        /\ \A m \in 1..Len(state.snakes) :
             state.snakes[m].id = call.input.snakes[k].id =>
               state.snakes[m].angle = call.input.snakes[k].angle

\* a bot heading neither 0 nor -PI, alone with a distant player, that lived through the tick
C23_Witness ==
  /\ call.made
  /\ \E k \in BotsOf(call.input) :
       /\ NoPelletInSeekRange(call.input, k)
       /\ NoDangerInRange(call.input, k)
       /\ call.input.snakes[k].angle \notin {0, -PI}
       /\ \E m \in 1..Len(state.snakes) :
            /\ state.snakes[m].id = call.input.snakes[k].id
            /\ state.snakes[m].angle = call.input.snakes[k].angle
            /\ state.snakes[m].segments[1] # call.input.snakes[k].segments[1]

---------------------------------------------------------------------------
(* C24 *)

\* the magnitude of the repulsion on the head of st.snakes[k], in 1/MagDen 
RepulsionMag(st, k) ==
  LET repulsion == RepulsionSum(st.snakes[k].segments[1], st.snakes[k], st.snakes, 1,
                                [x |-> 0, y |-> 0])
      unit == StrengthDen \div MagDen
  IN Hypot(RoundDiv(repulsion.x, unit), RoundDiv(repulsion.y, unit))

\* the heading away that the repulsion on the head of st.snakes[k] gives
RepulsionHeading(st, k) ==
  LET repulsion == RepulsionSum(st.snakes[k].segments[1], st.snakes[k], st.snakes, 1,
                                [x |-> 0, y |-> 0])
  IN Atan2(repulsion.y, repulsion.x)

\* the bearings from the head of st.snakes[k] to the pellets in seek range that no other
\* pellet is nearer than
NearestPelletBearings(st, k) ==
  LET head == st.snakes[k].segments[1]
      inRange == {i \in 1..Len(st.pellets) :
                    SqLess(distSq(head, st.pellets[i]), WholeSq(PELLET_SEEK_RADIUS))}
      nearest == {i \in inRange :
                    \A j \in inRange : ~SqLess(distSq(head, st.pellets[j]), distSq(head, st.pellets[i]))}
  IN {Atan2(st.pellets[i].y - head.y, st.pellets[i].x - head.x) : i \in nearest}

\* what computeTargetAngles returns for a snake heading angle that desires the heading desired
TurnedTowards(angle, desired) ==
  BotNormalizeAngle(angle + RoundDiv(BotNormalizeAngle(desired - angle) * TURN_SMOOTH, SmoothDen))

\* the desired headings of st.snakes[k] by the priority of C24, the avoidance applying when avoids
DesiredByPriority(st, k, avoids) ==
  IF avoids THEN {RepulsionHeading(st, k)}
  ELSE IF NearestPelletBearings(st, k) # {} THEN NearestPelletBearings(st, k)
  ELSE {st.snakes[k].angle}

\* C24 as stated: the avoidance heading when the repulsion magnitude exceeds the threshold,
\* otherwise the bearing to the nearest pellet in seek range, otherwise the current heading
C24_PriorityWhenExceeds ==
  call.made =>
    \A k \in BotsOf(call.input) :
      call.botAngles[call.input.snakes[k].id]
        \in {TurnedTowards(call.input.snakes[k].angle, desired) :
               desired \in DesiredByPriority(call.input, k,
                             RepulsionMag(call.input, k) > RepulsionThreshold * MagDen)}

\* C24, amended: the avoidance heading when the repulsion magnitude is at least the threshold,
\* whatever pellet is in range; otherwise the bearing to the nearest pellet in seek range;
\* otherwise the current heading
C24_PriorityWhenAtLeast ==
  call.made =>
    \A k \in BotsOf(call.input) :
      call.botAngles[call.input.snakes[k].id]
        \in {TurnedTowards(call.input.snakes[k].angle, desired) :
               desired \in DesiredByPriority(call.input, k,
                             RepulsionMag(call.input, k) >= RepulsionThreshold * MagDen)}

\* a bot with a repulsion above the threshold and a pellet in seek range whose bearing would
\* have turned it elsewhere: the avoidance decided
C24_Witness ==
  /\ call.made
  /\ \E k \in BotsOf(call.input) :
       /\ RepulsionMag(call.input, k) > RepulsionThreshold * MagDen
       /\ NearestPelletBearings(call.input, k) # {}
       /\ \A b \in NearestPelletBearings(call.input, k) :
            TurnedTowards(call.input.snakes[k].angle, b) # call.botAngles[call.input.snakes[k].id]
       /\ call.botAngles[call.input.snakes[k].id]
            = TurnedTowards(call.input.snakes[k].angle, RepulsionHeading(call.input, k))

---------------------------------------------------------------------------
(* C25 *)

\* the term of a segment at its own position: nothing when it is out of reach
TermOfSegment(head, seg) ==
  IF InDanger(distSq(head, seg), DangerReach)
  THEN LET d == distSq(head, seg)
       IN RepulsionAway(head, seg, Sqrt(d[1] * Scale * Scale + d[2]), DangerReach)
  ELSE [x |-> 0, y |-> 0]

\* the sum of the terms of the segments lo..hi of a snake
RECURSIVE TermsOfSegments(_, _, _, _)
TermsOfSegments(head, snake, lo, hi) ==
  IF lo > hi THEN [x |-> 0, y |-> 0]
  ELSE IF lo = hi THEN TermOfSegment(head, snake.segments[lo])
  ELSE LET mid == (lo + hi) \div 2
           low == TermsOfSegments(head, snake, lo, mid)
           high == TermsOfSegments(head, snake, mid + 1, hi)
       IN [x |-> low.x + high.x, y |-> low.y + high.y]

\* the repulsion on the head of st.snakes[k] as C25 describes it: one term for each of its own
\* segments behind the head and for each segment of the snakes j..Len(st.snakes) other than k
RECURSIVE RepulsionBySegment(_, _, _)
RepulsionBySegment(st, k, j) ==
  IF j > Len(st.snakes) THEN [x |-> 0, y |-> 0]
  ELSE LET terms == TermsOfSegments(st.snakes[k].segments[1], st.snakes[j],
                                    IF j = k THEN 2 ELSE 1, Len(st.snakes[j].segments))
           rest == RepulsionBySegment(st, k, j + 1)
       IN [x |-> rest.x - terms.x, y |-> rest.y - terms.y]

\* C25: the avoidance vector of a bot is the sum of one term for each body segment (its own
\* segments behind the head, every segment of every other snake) that is itself within
\* HEAD_RADIUS + BODY_RADIUS + DANGER_RADIUS of the bot's head, weighted by that segment's
\* distance; segments out of reach add nothing
C25_OneTermPerSegment ==
  call.made =>
    \A k \in BotsOf(call.input) :
      RepulsionSum(call.input.snakes[k].segments[1], call.input.snakes[k], call.input.snakes, 1,
                   [x |-> 0, y |-> 0])
        = RepulsionBySegment(call.input, k, 1)

---------------------------------------------------------------------------
(* C26 *)

\* the positions that add to the repulsion on the head of st.snakes[k]: avoidObstacles reads
\* the first segment of each other snake
ContributingPositions(st, k) ==
  {st.snakes[j].segments[1] : j \in {i \in 1..Len(st.snakes) :
      /\ st.snakes[i].id # st.snakes[k].id
      /\ InDanger(distSq(st.snakes[k].segments[1], st.snakes[i].segments[1]), DangerReach)}}

\* C26: an angle that avoidObstacles returns points away from the obstacles: when all that
\* contributes lies at one position q, the direction has a negative component along the vector
\* from the head to q
C26_AvoidancePointsAway ==
  call.made =>
    \A k \in BotsOf(call.input) :
      LET head == call.input.snakes[k].segments[1]
          avoidAngle == avoidObstacles(head, call.input.snakes[k], call.input.snakes)
      IN (avoidAngle # <<>> /\ Cardinality(ContributingPositions(call.input, k)) = 1) =>
           \A q \in ContributingPositions(call.input, k) :
             Cos(avoidAngle[1]) * (q.x - head.x) + Sin(avoidAngle[1]) * (q.y - head.y) < 0

---------------------------------------------------------------------------
(* C27 *)

\* the last call was a tick on a state in which a snake has no segments, all else well-formed
TickOnMalformedSnake ==
  /\ call.made
  /\ call.op = "tick"
  /\ call.dt # NaN
  /\ call.input.bounds \notin ZeroBounds
  /\ \E k \in 1..Len(call.input.snakes) : call.input.snakes[k].segments = <<>>

\* C27: a snake without segments does not abort the tick: tick returns a state in which every
\* other snake has been moved and the spawn timer has advanced
C27_MalformedSnakeSkipped ==
  TickOnMalformedSnake =>
    /\ ~call.out.threw
    /\ call.out.returned # <<>>
    /\ \A j \in 1..Len(call.input.snakes) :
         call.input.snakes[j].segments # <<>> =>
           call.out.returned[1].heads[j]
             = MovedHeadJs(call.input.snakes[j], call.dt, call.input.bounds)
    /\ call.out.returned[1].nextPelletSpawn
         \in {<<call.input.nextPelletSpawn - call.dt[1]>>, <<PELLET_SPAWN_INTERVAL * DtDen>>}

---------------------------------------------------------------------------
(* C28 *)

\* the last call was given a dt that is not a number or bounds with a dimension of zero
CallOnMalformedInput ==
  /\ call.made
  /\ call.dt = NaN \/ call.input.bounds \in ZeroBounds

\* what a call returned holds NaN: a head coordinate or the timer of a tick's state
ReturnedNaN ==
  /\ call.op = "tick"
  /\ call.out.returned # <<>>
  /\ \/ call.out.returned[1].nextPelletSpawn = NaN
     \/ \E k \in 1..Len(call.out.returned[1].heads) :
          call.out.returned[1].heads[k].x = NaN \/ call.out.returned[1].heads[k].y = NaN

\* C28: tick and createInitialState reject a dt that is not finite and bounds with a dimension
\* of zero by throwing, and never return a state that holds a NaN position or timer
C28_MalformedInputRejected ==
  /\ CallOnMalformedInput => (call.out.threw /\ call.out.returned = <<>>)
  /\ call.made => ~ReturnedNaN

---------------------------------------------------------------------------
(* C29 *)

\* the cell in front of the head of the last call
NextHeadCell ==
  [x |-> call.snake[1].x + call.direction.x, y |-> call.snake[1].y + call.direction.y]

NextHeadInGrid ==
  /\ 0 <= NextHeadCell.x /\ NextHeadCell.x < call.gridSize
  /\ 0 <= NextHeadCell.y /\ NextHeadCell.y < call.gridSize

NextHeadOnSnake == \E i \in 1..Len(call.snake) : call.snake[i] = NextHeadCell

\* C29: when the next head cell is inside the grid and not on the snake, getNextSnakeState
\* returns gameOver false and the new head in front of the old cells: without the old tail
\* and ateFood false when the new head is not on the food, with all old cells (one longer)
\* and ateFood true when it is
C29_StepMovesOrGrows ==
  (call.made /\ NextHeadInGrid /\ ~NextHeadOnSnake) =>
    /\ ~call.out.gameOver
    /\ call.out.nextSnake[1] = NextHeadCell
    /\ IF NextHeadCell = call.food
       THEN /\ call.out.ateFood
            /\ Len(call.out.nextSnake) = Len(call.snake) + 1
            /\ call.out.nextSnake = <<NextHeadCell>> \o call.snake
       ELSE /\ ~call.out.ateFood
            /\ Len(call.out.nextSnake) = Len(call.snake)
            /\ call.out.nextSnake
                 = <<NextHeadCell>> \o SubSeq(call.snake, 1, Len(call.snake) - 1)

\* a snake of three cells stepped onto the food and has four, after an earlier step that kept
\* its length
C29_Witness ==
  /\ call.made
  /\ ticks >= 2
  /\ NextHeadInGrid /\ ~NextHeadOnSnake
  /\ NextHeadCell = call.food
  /\ Len(call.snake) = 3
  /\ Len(state.snake) = 4
  /\ state.snake[1] = call.food

---------------------------------------------------------------------------
(* C30 *)

\* C30: when the next head cell is outside the grid or on a cell of the snake, the tail cell
\* included, getNextSnakeState returns gameOver true, ateFood false and the snake as it was
C30_HitEndsGame ==
  (call.made /\ (~NextHeadInGrid \/ NextHeadOnSnake)) =>
    /\ call.out.gameOver
    /\ ~call.out.ateFood
    /\ call.out.nextSnake = call.snake

\* the head stepped onto the cell of its own tail, inside the grid
C30_Witness ==
  /\ call.made
  /\ NextHeadInGrid
  /\ Len(call.snake) >= 4
  /\ NextHeadCell = call.snake[Len(call.snake)]
  /\ call.out.gameOver
  /\ state.over
  /\ state.snake = call.snake

---------------------------------------------------------------------------
(* C31 *)

\* C31: for every snake and gridSize randomFood returns, and the cell it returns has
\* 0 <= x, y < gridSize and is on no segment of the snake
C31_RandomFoodReturnsFreeCell ==
  <>(/\ call.returned
     /\ call.spot[1] \in randomFood(state.snake, state.gridSize))

---------------------------------------------------------------------------
(* C32 *)

\* C32: a frame handled while faceEnabled is false calls onDirectionChange never; switching
\* the toggle off leaves no baseline, no calibration in progress and no samples; and a
\* direction is emitted only after a full calibration collected since the last switch-off
C32_FaceOffIsSilent ==
  /\ (call.kind = "frame" /\ ~call.faceEnabled) => call.emitted = <<>>
  /\ (call.kind = "toggle" /\ ~call.faceEnabled) =>
       /\ state.baseline = <<>>
       /\ ~state.isCalibrating
       /\ state.samples = EmptyBag
  /\ (call.emitted # <<>>) =>
       /\ state.faceEnabled
       /\ ticks.sinceRestart >= CALIBRATION_SAMPLES_TARGET

\* a frame with a face came while the toggle was off, after tracking had been running (the
\* smoothed nose of it is still there) and its baseline was discarded
C32_Witness ==
  /\ call.kind = "frame"
  /\ ~call.faceEnabled
  /\ call.face
  /\ state.smoothedNose # <<>>
  /\ state.baseline = <<>>
  /\ ticks.sinceRestart = 0

---------------------------------------------------------------------------
(* C40 *)

\* C40 as stated: onDirectionChange is called only with a baseline and no calibration in
\* progress; a baseline is set only after CALIBRATION_SAMPLES_TARGET samples collected since
\* the last recalibrate, lost face or switch-off; the calibrated nose is computed only with a
\* baseline
C40_BaselineAfterUnbrokenSamples ==
  /\ (call.emitted # <<>>) => (state.baseline # <<>> /\ ~state.isCalibrating)
  /\ (call.used # EmptyBag) => ticks.sinceLoss >= CALIBRATION_SAMPLES_TARGET
  /\ call.computed => ~call.threw

\* C40 amended: as above, the samples being those collected since the last recalibrate,
\* switch-off or face lost outside a calibration: a face lost during a calibration keeps the
\* samples collected so far
C40_BaselineAfterSamples ==
  /\ (call.emitted # <<>>) => (state.baseline # <<>> /\ ~state.isCalibrating)
  /\ (call.used # EmptyBag) =>
       /\ BagCardinality(call.used) = CALIBRATION_SAMPLES_TARGET
       /\ ticks.sinceRestart >= CALIBRATION_SAMPLES_TARGET
       /\ state.baseline = <<medianPoint(call.used)>>
  /\ call.computed => ~call.threw
  /\ BagCardinality(state.samples) <= ticks.sinceRestart

\* a baseline was set from samples of both nose positions, some of them collected before a
\* frame that lost the face
C40_Witness ==
  /\ call.used # EmptyBag
  /\ DOMAIN call.used = Noses
  /\ ticks.sinceLoss < CALIBRATION_SAMPLES_TARGET
  /\ state.baseline # <<>>

---------------------------------------------------------------------------
(* C33 *)

\* the summed values of pellets
ValueSum(pellets) == SeqSum([i \in 1..Len(pellets) |-> pellets[i].value])

\* the collection step of the last call: the moved snakes grown, and the pellets left
Collected(moved) ==
  CollectPhase(moved, 1, <<>>, call.input.pellets, FALSE, call.input.bounds)

\* C33: in one tick a pellet in pickup range of several heads is removed once and credited to
\* the first of them in state.snakes only, and the lengths gained by all snakes add up to the
\* values of the pellets removed
C33_PelletCreditedOnce ==
  call.made =>
    LET moved == Moved
        col == Collected(moved)
        gained == [k \in 1..Len(moved) |->
                     Len(col.snakes[k].segments) - Len(moved[k].segments)]
    IN /\ col.pellets = Untouched(moved)
       /\ SubSeq(state.pellets, 1, Len(col.pellets)) = col.pellets
       /\ \A k \in 1..Len(moved) : gained[k] = Gain(moved, k)
       /\ SeqSum(gained) = ValueSum(call.input.pellets) - ValueSum(col.pellets)
       /\ \A m \in 1..Len(state.snakes) :
            \E k \in 1..Len(moved) :
              /\ moved[k].id = state.snakes[m].id
              /\ Len(state.snakes[m].segments) = Len(moved[k].segments) + gained[k]

\* a pellet was in pickup range of two heads: the first snake grew by its value, the second
\* did not grow, and both are in the returned state
C33_Witness ==
  /\ call.made
  /\ LET moved == Moved
     IN \E i \in 1..Len(call.input.pellets), j \in 1..Len(moved), k \in 1..Len(moved) :
          /\ j < k
          /\ Reaches(moved, j, call.input.pellets[i], call.input.bounds)
          /\ Reaches(moved, k, call.input.pellets[i], call.input.bounds)
          /\ Gain(moved, j) >= PELLET_VALUE
          /\ Gain(moved, k) = 0
          /\ {moved[j].id, moved[k].id} \subseteq IdsOf(state.snakes)
          /\ \E m \in 1..Len(state.snakes) :
               /\ state.snakes[m].id = moved[k].id
               /\ Len(state.snakes[m].segments) = Len(moved[k].segments)

---------------------------------------------------------------------------
(* C34 *)

\* C34: in every state reached from createInitialState by ticks every pellet has value
\* PELLET_VALUE, every snake has INITIAL_LENGTH segments plus a non-negative multiple of
\* PELLET_VALUE, and no snake has fewer segments than it had before the last tick
C34_LengthsAndValues ==
  /\ \A i \in 1..Len(state.pellets) : state.pellets[i].value = PELLET_VALUE
  /\ \A m \in 1..Len(state.snakes) :
       /\ Len(state.snakes[m].segments) >= INITIAL_LENGTH
       /\ (Len(state.snakes[m].segments) - INITIAL_LENGTH) % PELLET_VALUE = 0
       /\ call.made =>
            \E k \in 1..Len(call.input.snakes) :
              /\ call.input.snakes[k].id = state.snakes[m].id
              /\ Len(call.input.snakes[k].segments) <= Len(state.snakes[m].segments)

\* after two ticks a snake that had grown before grew again, while another snake died and
\* left its pellets
C34_Witness ==
  /\ call.made
  /\ ticks = 2
  /\ deadIds # <<>>
  /\ state.pellets # <<>>
  /\ \E m \in 1..Len(state.snakes), k \in 1..Len(call.input.snakes) :
       /\ call.input.snakes[k].id = state.snakes[m].id
       /\ Len(call.input.snakes[k].segments) > INITIAL_LENGTH
       /\ Len(state.snakes[m].segments) > Len(call.input.snakes[k].segments)

---------------------------------------------------------------------------
(* C35 *)

\* nextPelletSpawn lies in (0, PELLET_SPAWN_INTERVAL]
TimerInRange ==
  LET t == state.nextPelletSpawn
  IN /\ t[1] > 0 \/ t[2] > 0
     /\ t[1] < PELLET_SPAWN_INTERVAL * 268435456
          \/ t = <<PELLET_SPAWN_INTERVAL * 268435456, 0>>

\* C35: under a fixed dt > 0, from nextPelletSpawn = PELLET_SPAWN_INTERVAL, the countdown
\* stays in (0, PELLET_SPAWN_INTERVAL], a spawn comes exactly every
\* ceil(PELLET_SPAWN_INTERVAL / dt) ticks, and spawns come infinitely often
C35_SpawnEveryCeilTicks ==
  /\ [](TimerInRange)
  /\ [](call.spawned => call.took = state.run.ceil)
  /\ []<>(call.spawned)

---------------------------------------------------------------------------
(* C36 *)

\* the fields of a snake that a tick does not compute
Kept(snake) ==
  [speed |-> snake.speed, turnSpeed |-> snake.turnSpeed, id |-> snake.id,
   color |-> snake.color, isPlayer |-> snake.isPlayer]

\* C36: playerSpeedMultiplier changes how far the player's head goes and nothing else of the
\* movement: every bot is moved as with a multiplier of 1, the player turns as with a
\* multiplier of 1, and every snake of the returned state has the speed, turnSpeed, id, color
\* and isPlayer of the input
C36_MultiplierOnlyMovesPlayer ==
  call.made =>
    LET moved == Moved
        plain == MovePhase(call.input, call.dt, call.targetAngles,
                           [playerSpeedMultiplier |-> MulDen])
    IN /\ \A k \in 1..Len(moved) :
            /\ Kept(moved[k]) = Kept(call.input.snakes[k])
            /\ moved[k].angle = plain[k].angle
            /\ ~moved[k].isPlayer => moved[k] = plain[k]
       /\ \A m \in 1..Len(state.snakes) :
            \E k \in 1..Len(call.input.snakes) :
              Kept(state.snakes[m]) = Kept(call.input.snakes[k])

\* in the second tick the player was moved with a multiplier of 2, went farther than it would
\* have gone without, and is in the returned state beside a bot
C36_Witness ==
  /\ call.made
  /\ ticks = 2
  /\ call.options.playerSpeedMultiplier = 2 * MulDen
  /\ LET moved == Moved
         plain == MovePhase(call.input, call.dt, call.targetAngles,
                            [playerSpeedMultiplier |-> MulDen])
     IN \E k \in 1..Len(moved) :
          /\ moved[k].isPlayer
          /\ moved[k].segments[1] # plain[k].segments[1]
          /\ moved[k].id \in IdsOf(state.snakes)
  /\ \E m \in 1..Len(state.snakes) : ~state.snakes[m].isPlayer

---------------------------------------------------------------------------
(* C37 *)

\* C37: for every bounds and numBots createInitialState gets to the end of its loop over the
\* snakes, and the heads it has placed lie in pairwise different cells of 50 by 50
C37_HeadsPlacedInOwnCells ==
  /\ [](\A i, j \in 1..Len(state.heads) :
          i < j => CellKey(state.heads[i].x, state.heads[i].y)
                     # CellKey(state.heads[j].x, state.heads[j].y))
  /\ <>(call.ended)

---------------------------------------------------------------------------
(* C38 *)

\* the cells of snake are pairwise different, inside the grid, and each next to the one
\* before it
WellFormedSnake(snake, gridSize) ==
  /\ \A i, j \in 1..Len(snake) : i < j => snake[i] # snake[j]
  /\ \A i \in 1..Len(snake) :
       /\ 0 <= snake[i].x /\ snake[i].x < gridSize
       /\ 0 <= snake[i].y /\ snake[i].y < gridSize
  /\ \A i \in 1..(Len(snake) - 1) :
       (IF snake[i].x >= snake[i + 1].x THEN snake[i].x - snake[i + 1].x
        ELSE snake[i + 1].x - snake[i].x)
         + (IF snake[i].y >= snake[i + 1].y THEN snake[i].y - snake[i + 1].y
            ELSE snake[i + 1].y - snake[i].y) = 1

\* C38: from a snake of pairwise different, adjacent cells inside the grid, after any steps of
\* getNextSnakeState with unit directions that did not report gameOver, the cells of the
\* snake are pairwise different, inside the grid and consecutively at Manhattan distance 1
C38_SnakeStaysWellFormed ==
  /\ WellFormedSnake(state.snake, state.gridSize)
  /\ call.made => WellFormedSnake(call.out.nextSnake, call.gridSize)

\* after three steps without gameOver the snake has a bend and is two cells longer than it
\* started, the last step having made it grow
C38_Witness ==
  /\ call.made
  /\ ticks >= 3
  /\ ~state.over
  /\ Len(state.snake) > Len(call.snake)
  /\ \E i \in 1..Len(state.snake) :
       state.snake[i].x # state.snake[1].x /\ state.snake[i].y # state.snake[1].y
  /\ \E s \in GridSnakes : Len(state.snake) >= Len(s) + 2

---------------------------------------------------------------------------
(* C39 *)

\* C39: the direction a game step applies is never the exact reverse of the direction the
\* step before it applied, whatever key and head-tracking events came between the two
C39_NoReversalBetweenSteps ==
  (call.kind = "step" /\ ticks >= 2) =>
    ~(call.applied.x + call.before.x = 0 /\ call.applied.y + call.before.y = 0)

=============================================================================
